---------------------------- MODULE Spec2Model ----------------------------
(***************************************************************************)
(* Model of the bid comparison engine of BidCompareStandalone              *)
(* (src/backend/app/main.py, src/bid_compare_cli.py).                      *)
(*                                                                         *)
(* Numbers.  The program computes with IEEE doubles; the model computes    *)
(* with exact values: line quantities, prices and totals are integers,     *)
(* quotients (weighted unit price, mean, spread) are reduced fractions     *)
(* <<n, d>> with d > 0, and a value with square roots (a standard         *)
(* deviation, a z-score) is kept symbolically as a sequence of terms       *)
(* [c |-> q, rad |-> r], standing for the sum of the q * sqrt(r); the      *)
(* empty sequence is 0.  A missing value (None, NaN, a blank cell) is the  *)
(* empty tuple <<>>; a present value v is <<v>>.                           *)
(*                                                                         *)
(* Text.  Provider names and messages are strings.  An item code is a      *)
(* sequence of one-character strings, so that its prefix, its split at     *)
(* "." and its lexicographic order can be computed as the program does.    *)
(***************************************************************************)
EXTENDS Integers, Sequences, FiniteSets, TLC

VARIABLES
    pc,          \* position of the run: "loading", "done", "failed", or a position of the aggregator harness
    files,       \* bid_compare: the uploads consumed so far by the loop of lines 654-682
    bids,        \* bid_compare: bids, an insertion-ordered dict as a sequence of [name, df]
    errors,      \* bid_compare: errors
    matrix,      \* bid_compare: result["matrix"], [columns, rows] of matrix_disp
    chapter,     \* bid_compare: result["chapters"], [columns, rows] of chapter_disp
    summary,     \* bid_compare: result["summary"]
    agg_df,      \* _aggregate_bid_rows: the frame it is given
    agg_out,     \* _aggregate_bid_rows: its result
    agg_again,   \* _aggregate_bid_rows: its result on its own result
    titles,      \* _collect_chapter_titles: the titles dict while the rows are scanned
    scan,        \* _collect_chapter_titles: the rows its loops have still to visit
    num_cell,    \* a raw cell value handed to the numeric conversions
    num_field,   \* the numeric field (element or column) the cell stands in
    num_float,   \* _to_float: its result on the cell
    num_line,    \* _parse_ns3459_xml: qty, unit_price, sum_amount of the cell's line
    num_row,     \* _normalize_columns: qty, unit_price, sum_amount of the cell's row
    spec_parts,  \* _parse_ns3459_xml: the specification fragments of one line
    added,       \* _parse_ns3459_xml: the values handed to add_part for the line so far
    cli_winner   \* bid_compare_cli.print_summary: the winner it prints

titleVars == <<titles, scan>>

numVars == <<num_cell, num_field, num_float, num_line, num_row>>

partVars == <<spec_parts, added>>

vars == <<pc, files, bids, errors, matrix, chapter, summary,
          agg_df, agg_out, agg_again, titleVars, numVars, partVars, cli_winner>>

(***************************************************************************)
(* Bounds of the model.                                                    *)
(***************************************************************************)
MaxFiles == 3

MaxText == 3

MaxBids == 2

MaxAdds == 3

MaxRows == 2

(***************************************************************************)
(* Exact arithmetic.                                                       *)
(***************************************************************************)
None == <<>>

Some(v) == <<v>>

Abs(x) == IF x < 0 THEN -x ELSE x

RECURSIVE GCD(_, _)
GCD(a, b) == IF b = 0 THEN a ELSE GCD(b, a % b)

Rat(n, d) ==
    LET g == GCD(Abs(n), Abs(d))
        s == IF d < 0 THEN -1 ELSE 1
    IN  <<(s * n) \div g, (s * d) \div g>>

RInt(n) == <<n, 1>>

RAdd(a, b) == Rat(a[1] * b[2] + b[1] * a[2], a[2] * b[2])

RSub(a, b) == Rat(a[1] * b[2] - b[1] * a[2], a[2] * b[2])

RMul(a, b) == Rat(a[1] * b[1], a[2] * b[2])

RDiv(a, b) == Rat(a[1] * b[2], a[2] * b[1])

RECURSIVE SumSeq(_)
SumSeq(s) == IF s = <<>> THEN 0 ELSE Head(s) + SumSeq(Tail(s))

RECURSIVE SqrtSearch(_, _, _)
SqrtSearch(n, lo, hi) ==
    IF lo >= hi THEN lo
    ELSE LET mid == (lo + hi + 1) \div 2
         IN  IF mid * mid <= n THEN SqrtSearch(n, mid, hi) ELSE SqrtSearch(n, lo, mid - 1)

ISqrt(n) == SqrtSearch(n, 0, IF n < 46340 THEN n ELSE 46340)

IsSquare(n) == ISqrt(n) * ISqrt(n) = n

Root(q, r) ==
    IF q[1] = 0 \/ r[1] = 0 THEN <<>>
    ELSE IF IsSquare(r[1]) /\ IsSquare(r[2])
         THEN <<[c |-> RMul(q, <<ISqrt(r[1]), ISqrt(r[2])>>), rad |-> <<1, 1>>]>>
         ELSE <<[c |-> q, rad |-> r]>>

RECURSIVE RootAdd(_, _)
RootAdd(x, y) ==
    IF y = <<>> THEN x
    ELSE LET t == Head(y)
             same == {i \in 1..Len(x) : x[i].rad = t.rad}
             i == CHOOSE i \in same : TRUE
             merged == IF same = {} THEN Append(x, t)
                       ELSE [x EXCEPT ![i].c = RAdd(x[i].c, t.c)]
         IN  RootAdd(SelectSeq(merged, LAMBDA u : u.c[1] # 0), Tail(y))

RECURSIVE RootSum(_)
RootSum(s) == IF s = <<>> THEN <<>> ELSE RootAdd(Head(s), RootSum(Tail(s)))

(***************************************************************************)
(* Text of item and chapter codes.                                         *)
(***************************************************************************)
CharRank(c) ==
    CASE c = " " -> 32
      [] c = "." -> 46
      [] c = "0" -> 48
      [] c = "1" -> 49
      [] c = "2" -> 50
      [] c = "3" -> 51
      [] c = "4" -> 52
      [] c = "5" -> 53
      [] c = "6" -> 54
      [] c = "7" -> 55
      [] c = "8" -> 56
      [] c = "9" -> 57
      [] c = "M" -> 77
      [] c = "S" -> 83
      [] c = "U" -> 85
      [] OTHER -> 127

RECURSIVE StrLess(_, _)
StrLess(a, b) ==
    IF b = <<>> THEN FALSE
    ELSE IF a = <<>> THEN TRUE
    ELSE IF Head(a) = Head(b) THEN StrLess(Tail(a), Tail(b))
    ELSE CharRank(Head(a)) < CharRank(Head(b))

RECURSIVE SortCodes(_)
SortCodes(S) ==
    IF S = {} THEN <<>>
    ELSE LET m == CHOOSE x \in S : \A y \in S : y = x \/ StrLess(x, y)
         IN  <<m>> \o SortCodes(S \ {m})

Range(s) == {s[i] : i \in 1..Len(s)}

(***************************************************************************)
(* Text in general: a sequence of characters.  NL is the line feed, Nbsp   *)
(* the no-break space; NaN is what a blank cell of a table is read as.     *)
(***************************************************************************)
NL == "NL"

Nbsp == "NBSP"

Spaces == {" ", NL, Nbsp}

NaN == <<"NaN">>

Uppers ==
    <<"A", "B", "C", "D", "E", "F", "G", "H", "I", "J", "K", "L", "M",
      "N", "O", "P", "Q", "R", "S", "T", "U", "V", "W", "X", "Y", "Z">>

Lowers ==
    <<"a", "b", "c", "d", "e", "f", "g", "h", "i", "j", "k", "l", "m",
      "n", "o", "p", "q", "r", "s", "t", "u", "v", "w", "x", "y", "z">>

IsUpper(c) == c \in Range(Uppers)

IsAlpha(c) == c \in Range(Uppers) \cup Range(Lowers)

LowerChar(c) == IF IsUpper(c) THEN Lowers[CHOOSE i \in 1..Len(Uppers) : Uppers[i] = c] ELSE c

UpperChar(c) ==
    IF c \in Range(Lowers) THEN Uppers[CHOOSE i \in 1..Len(Lowers) : Lowers[i] = c] ELSE c

LowerText(text) == [i \in 1..Len(text) |-> LowerChar(text[i])]

RECURSIVE LStrip(_)
LStrip(text) == IF text # <<>> /\ Head(text) \in Spaces THEN LStrip(Tail(text)) ELSE text

RECURSIVE RStrip(_)
RStrip(text) ==
    IF text # <<>> /\ text[Len(text)] \in Spaces
    THEN RStrip(SubSeq(text, 1, Len(text) - 1))
    ELSE text

Strip(text) == RStrip(LStrip(text))

Str(value) == IF value = NaN THEN <<"n", "a", "n">> ELSE value

RECURSIVE Join(_, _)
Join(sep, parts) ==
    IF parts = <<>> THEN <<>>
    ELSE IF Len(parts) = 1 THEN parts[1]
    ELSE parts[1] \o sep \o Join(sep, Tail(parts))

(***************************************************************************)
(* _aggregate_bid_rows: one row per item code of a frame.                  *)
(***************************************************************************)
HasBoth(r) == r.qty # None /\ r.unit_price # None

HasPrice(r) == r.unit_price # None

HasSum(r) == r.sum_amount # None

Column(rows, Get(_)) == [i \in 1..Len(rows) |-> Get(rows[i])]

QtyOf(r) == r.qty[1]

PriceOf(r) == r.unit_price[1]

PriceTimesQty(r) == RMul(r.unit_price[1], RInt(r.qty[1]))

SumOf(r) == r.sum_amount[1]

Mean(values) == Rat(SumSeq(values), Len(values))

RECURSIVE RSumSeq(_)
RSumSeq(s) == IF s = <<>> THEN RInt(0) ELSE RAdd(Head(s), RSumSeq(Tail(s)))

RMean(values) == RDiv(RSumSeq(values), RInt(Len(values)))

WeightedPriceUnweighted(group) ==
    LET priced == SelectSeq(group, HasPrice)
    IN  IF priced # <<>> THEN Some(RMean(Column(priced, PriceOf))) ELSE None

WeightedPrice(group) ==
    LET masked == SelectSeq(group, HasBoth)
        priced == SelectSeq(group, HasPrice)
        qty_sum == SumSeq(Column(masked, QtyOf))
    IN  IF masked # <<>>
        THEN IF qty_sum > 0
             THEN Some(RDiv(RSumSeq(Column(masked, PriceTimesQty)), RInt(qty_sum)))
             ELSE Some(RMean(Column(masked, PriceOf)))
        ELSE IF priced # <<>>
             THEN Some(RMean(Column(priced, PriceOf)))
             ELSE None

TotalSumZeroFilled(group) ==
    Some(SumSeq(Column(SelectSeq(group, HasSum), SumOf)))

TotalSum(group) ==
    LET summed == SelectSeq(group, HasSum)
    IN  IF summed # <<>> THEN Some(SumSeq(Column(summed, SumOf))) ELSE None

GroupOf(df, postnr) == SelectSeq(df, LAMBDA r : r.postnr = postnr)

RECURSIVE AggregateGroups(_, _)
AggregateGroups(df, keys) ==
    IF keys = <<>> THEN <<>>
    ELSE LET group == GroupOf(df, Head(keys))
             weighted_price == WeightedPrice(group)
             total_sum == TotalSum(group)
             rest == AggregateGroups(df, Tail(keys))
         IN  IF weighted_price = None /\ total_sum = None
             THEN rest
             ELSE <<[postnr |-> Head(keys), unit |-> weighted_price, total |-> total_sum]>>
                  \o rest

AggregateBidRows(df) ==
    AggregateGroups(df, SortCodes({df[i].postnr : i \in 1..Len(df)}))


(***************************************************************************)
(* The uploads.  An upload is what the transport layer hands to            *)
(* bid_compare: a file name and bytes.  The bytes are described by what    *)
(* the readers find in them: data says whether they are empty, not         *)
(* well-formed XML, XML without a Post element, a table no reader can      *)
(* decode, or readable; company is the sender's Firma/Navn of an XML bid;  *)
(* has_price and has_sum say whether a table has a "pris" and a "sum"      *)
(* column; lines are the Post elements or the table's rows, with the cell  *)
(* texts as numbers (<<>> for a missing element or cell), the Opsjon       *)
(* attribute and the Type1 chapter reference of the line.                  *)
(***************************************************************************)
P0101 == <<"0", "1", ".", "0", "1">>

P0201 == <<"0", "2", ".", "0", "1">>

P1 == <<"1">>

Line(postnr, mengde, pris, sum, opsjon) ==
    [postnr |-> postnr, mengde |-> mengde, pris |-> pris, sum |-> sum,
     opsjon |-> opsjon, type1 |-> <<>>, enhet |-> <<>>, kode_id |-> <<>>,
     overskrift |-> <<>>, uformatert |-> <<>>, fragments |-> <<>>]

Described(line, enhet, kode_id, overskrift, uformatert) ==
    [line EXCEPT !.enhet = enhet, !.kode_id = kode_id, !.overskrift = overskrift,
                 !.uformatert = uformatert]

XmlBid(filename, company, lines) ==
    [filename |-> filename, kind |-> "xml", data |-> "ok", company |-> company,
     has_price |-> TRUE, has_sum |-> TRUE, plan |-> <<>>, lines |-> lines]

Planned(doc, plan) == [doc EXCEPT !.plan = plan]

Table(filename, has_price, has_sum, lines) ==
    [filename |-> filename, kind |-> "tab", data |-> "ok", company |-> "",
     has_price |-> has_price, has_sum |-> has_sum, plan |-> <<>>, lines |-> lines]

Broken(filename, kind, data) ==
    [filename |-> filename, kind |-> kind, data |-> data, company |-> "",
     has_price |-> FALSE, has_sum |-> FALSE, plan |-> <<>>, lines |-> <<>>]

Txt ==
    [m |-> <<"m">>,
     stk |-> <<"s", "t", "k">>,
     kg |-> <<"k", "g">>,
     a1 |-> <<"A", "1">>,
     b2 |-> <<"B", "2">>,
     grunn |-> <<"G", "R", "U", "N", "N">>,
     graving |-> <<"G", "r", "a", "v", "i", "n", "g">>,
     betong |-> <<"B", "e", "t", "o", "n", "g">>,
     rigg |-> <<" ", "R", "i", "g", "g", ".">>,
     mur |-> <<"M", "u", "r">>,
     tak |-> <<"T", "a", "k", NL, "t", "e", "g", "l">>,
     sum |-> <<"S", "u", "m">>,
     drift |-> <<"D", "R", "I", "F", "T", " ", " ", "o", "g">>]

DocAlfa ==
    XmlBid("a.xml", "Alfa",
           <<Described(Line(P0101, Some(10), Some(100), None, ""),
                       Txt.m, Txt.a1, Txt.grunn, Txt.graving)>>)

DocBeta ==
    Planned(XmlBid("b.xml", "Beta",
                   <<Described(Line(P0101, Some(5), Some(200), Some(0), ""),
                               <<" ", " ">>, <<>>, <<>>, Txt.betong)>>),
            <<[kode |-> <<"0", "1">>, navn |-> Txt.drift]>>)

DocNoCompany ==
    XmlBid("c.xml", "",
           <<Line(P0101, Some(1), Some(100), Some(100), ""),
             Described(Line(P0101, Some(4), Some(200), Some(800), ""),
                       Txt.stk, Txt.b2, <<>>, Txt.tak),
             Described(Line(P0201, Some(1), Some(50), None, "JA"),
                       Txt.kg, Txt.a1, Txt.mur, <<>>)>>)

DocTable ==
    Table("Alfa", TRUE, FALSE,
          <<Described(Line(P0101, Some(11), Some(100), None, ""), NaN, <<>>, <<>>, Txt.sum),
            Described(Line(P0201, Some(1), Some(100), None, ""), Txt.stk, <<>>, <<>>, Txt.mur)>>)

DocNoPrices ==
    Table("e.csv", FALSE, FALSE,
          <<Described(Line(P0201, Some(2), None, None, ""), Txt.m, <<>>, <<>>, Txt.rigg),
            Described(Line(P1, Some(3), None, None, ""), Txt.m, <<>>, <<>>, NaN)>>)

Long(n) == [i \in 1..n |-> "a"]

DocLongPlan ==
    Planned(XmlBid("g.xml", "Gamma",
                   <<Described(Line(P0101, Some(1), Some(100), None, ""),
                               Txt.m, Txt.a1, Txt.grunn, Txt.graving)>>),
            <<[kode |-> <<"0", "1">>, navn |-> Long(121)]>>)

DocLongHeading ==
    XmlBid("h.xml", "Delta",
           <<Described(Line(P0201, Some(1), Some(100), None, ""),
                       Txt.m, Txt.a1, Long(121) \o <<".">>, Txt.mur)>>)

DocOnlyOption ==
    XmlBid("f.xml", "Beta",
           <<Described(Line(P0101, Some(1), Some(500), None, "true"),
                       Txt.kg, Txt.b2, Txt.mur, Txt.rigg)>>)

DocSuffixed ==
    XmlBid("g.xml", "Alfa (2)",
           <<Described(Line(P0201, Some(0), Some(150), Some(150), "nei"),
                       Txt.kg, Txt.b2, <<>>, <<>>)>>)

DocEmpty == Broken("", "tab", "empty")

DocMalformed == Broken("bad.xml", "xml", "malformed")

DocNoPosts == Broken("nop.xml", "xml", "noposts")

DocUnreadable == Broken("x.xlsx", "tab", "unreadable")

Uploads ==
    {DocAlfa, DocBeta, DocNoCompany, DocTable, DocNoPrices, DocOnlyOption,
     DocSuffixed, DocEmpty, DocMalformed, DocNoPosts, DocUnreadable}

(***************************************************************************)
(* The readers.                                                            *)
(***************************************************************************)
(***************************************************************************)
(* Floats and raw cells.  A float is finite with an exact value, or one of *)
(* the three non-finite values; a raw cell is None, a number or a text.    *)
(***************************************************************************)
Finite(value) == [class |-> "finite", value |-> value]

Infinity == [class |-> "inf", value |-> RInt(0)]

NegInfinity == [class |-> "-inf", value |-> RInt(0)]

NotANumber == [class |-> "nan", value |-> RInt(0)]

IsFinite(float) == float.class = "finite"

NoCell == [kind |-> "none", text |-> <<>>, number |-> Finite(RInt(0))]

TextCell(text) == [kind |-> "text", text |-> text, number |-> Finite(RInt(0))]

NumberCell(float) == [kind |-> "number", text |-> <<>>, number |-> float]

DigitChars == <<"0", "1", "2", "3", "4", "5", "6", "7", "8", "9">>

IsDigit(c) == c \in Range(DigitChars)

DigitValue(c) == (CHOOSE i \in 1..Len(DigitChars) : DigitChars[i] = c) - 1

RECURSIVE DigitsValue(_)
DigitsValue(text) ==
    IF text = <<>> THEN 0
    ELSE DigitsValue(SubSeq(text, 1, Len(text) - 1)) * 10 + DigitValue(text[Len(text)])

RECURSIVE Digits(_)
Digits(n) ==
    IF n < 10 THEN <<DigitChars[n + 1]>>
    ELSE Digits(n \div 10) \o <<DigitChars[(n % 10) + 1]>>

RECURSIVE Pow10(_)
Pow10(n) == IF n = 0 THEN 1 ELSE 10 * Pow10(n - 1)

Remove(text, chars) ==
    LET Kept(c) == c \notin chars
    IN  SelectSeq(text, Kept)

Replace(text, old, new) == [i \in 1..Len(text) |-> IF text[i] = old THEN new ELSE text[i]]

FloatSign(float) ==
    CASE float.class = "inf" -> 1
      [] float.class = "-inf" -> -1
      [] OTHER -> IF float.value[1] > 0 THEN 1 ELSE IF float.value[1] < 0 THEN -1 ELSE 0

FloatMul(a, b) ==
    IF a.class = "nan" \/ b.class = "nan" THEN NotANumber
    ELSE IF IsFinite(a) /\ IsFinite(b) THEN Finite(RMul(a.value, b.value))
    ELSE IF FloatSign(a) * FloatSign(b) = 0 THEN NotANumber
    ELSE IF FloatSign(a) * FloatSign(b) > 0 THEN Infinity
    ELSE NegInfinity

(***************************************************************************)
(* float(text) of Python on a text without blanks: an optional sign, then  *)
(* the word inf, infinity or nan in any case, or digits with at most one   *)
(* decimal point and at least one digit.  Anything else raises ValueError  *)
(* (ok = FALSE).  Exponents and digit separators are outside the texts of  *)
(* the model.                                                              *)
(***************************************************************************)
PyFloat(text) ==
    LET signed == text # <<>> /\ Head(text) \in {"-", "+"}
        negative == signed /\ Head(text) = "-"
        body == IF signed THEN Tail(text) ELSE text
        word == LowerText(body)
        digits == SelectSeq(body, IsDigit)
        points == {i \in 1..Len(body) : body[i] = "."}
        decimals == IF points = {} THEN 0 ELSE Len(body) - (CHOOSE i \in points : TRUE)
        magnitude == Rat(DigitsValue(digits), Pow10(decimals))
    IN  IF word \in {<<"i", "n", "f">>, <<"i", "n", "f", "i", "n", "i", "t", "y">>}
        THEN [ok |-> TRUE, float |-> IF negative THEN NegInfinity ELSE Infinity]
        ELSE IF word = <<"n", "a", "n">>
        THEN [ok |-> TRUE, float |-> NotANumber]
        ELSE IF /\ \A i \in 1..Len(body) : IsDigit(body[i]) \/ body[i] = "."
                /\ Cardinality(points) <= 1
                /\ digits # <<>>
        THEN [ok |-> TRUE,
              float |-> Finite(IF negative THEN RSub(RInt(0), magnitude) ELSE magnitude)]
        ELSE [ok |-> FALSE, float |-> Finite(RInt(0))]

(***************************************************************************)
(* _to_float, lines 125-137.                                               *)
(***************************************************************************)
ToFloat(value) ==
    IF value.kind = "none" THEN Finite(RInt(0))
    ELSE IF value.kind = "number" THEN value.number
    ELSE LET text == Strip(value.text)
             cleaned == Replace(Remove(text, {" ", Nbsp}), ",", ".")
         IN  IF text = <<>> THEN Finite(RInt(0))
             ELSE IF PyFloat(cleaned).ok THEN PyFloat(cleaned).float
             ELSE Finite(RInt(0))

(***************************************************************************)
(* _parse_ns3459_xml, lines 180-189: the three numbers of a line.          *)
(***************************************************************************)
XmlNumbers(mengde, pris, sum) ==
    LET qty == ToFloat(mengde)
        unit_price == ToFloat(pris)
        sum_amount == ToFloat(sum)
    IN  [qty |-> qty,
         unit_price |-> unit_price,
         sum_amount |-> IF sum_amount = Finite(RInt(0)) THEN FloatMul(qty, unit_price)
                        ELSE sum_amount]

(***************************************************************************)
(* _normalize_columns, lines 65-86: the three numeric columns.             *)
(* pd.to_numeric(errors="coerce") keeps a number, reads a text after       *)
(* skipping ASCII blanks at its two ends, and yields NaN for None and for  *)
(* a text it cannot read; fillna(0.0) turns NaN into 0.0.                  *)
(***************************************************************************)
AsciiSpaces == {" ", NL}

RECURSIVE AsciiStrip(_)
AsciiStrip(text) ==
    IF text # <<>> /\ Head(text) \in AsciiSpaces THEN AsciiStrip(Tail(text))
    ELSE IF text # <<>> /\ text[Len(text)] \in AsciiSpaces
    THEN AsciiStrip(SubSeq(text, 1, Len(text) - 1))
    ELSE text

ToNumeric(value) ==
    IF value.kind = "none" THEN NotANumber
    ELSE IF value.kind = "number" THEN value.number
    ELSE IF PyFloat(AsciiStrip(value.text)).ok THEN PyFloat(AsciiStrip(value.text)).float
    ELSE NotANumber

FillNa(float) == IF float.class = "nan" THEN Finite(RInt(0)) ELSE float

AsTypeStr(value) ==
    IF value.kind = "none" THEN <<"N", "o", "n", "e">>
    ELSE IF value.kind = "text" THEN value.text
    ELSE CASE value.number.class = "nan" -> <<"n", "a", "n">>
           [] value.number.class = "inf" -> <<"i", "n", "f">>
           [] value.number.class = "-inf" -> <<"-", "i", "n", "f">>
           [] OTHER -> (IF value.number.value[1] < 0 THEN <<"-">> ELSE <<>>)
                       \o Digits(Abs(value.number.value[1])) \o <<".", "0">>

QtyColumn(value) == FillNa(ToNumeric(value))

AmountColumn(value) ==
    FillNa(ToNumeric(TextCell(Replace(Remove(AsTypeStr(value), {" "}), ",", "."))))

NormalizedNumbers(doc, mengde, pris, sum) ==
    LET qty == QtyColumn(mengde)
        unit_price == IF doc.has_price THEN AmountColumn(pris) ELSE Finite(RInt(0))
    IN  [qty |-> qty,
         unit_price |-> unit_price,
         sum_amount |-> IF doc.has_sum THEN AmountColumn(sum) ELSE FloatMul(qty, unit_price)]

(***************************************************************************)
(* The numbers of the documents.  An XML element holds its amount as a     *)
(* text of digits (absent: findtext gives None); a table cell holds a      *)
(* number (blank: NaN).  The documents carry whole amounts only, which the *)
(* records keep as integers.                                               *)
(***************************************************************************)
XmlText(value) == IF value = None THEN NoCell ELSE TextCell(Digits(value[1]))

TableCell(value) ==
    IF value = None THEN NumberCell(NotANumber) ELSE NumberCell(Finite(RInt(value[1])))

Amount(float) == float.value[1]

Lower(text) ==
    CASE text = "JA" -> "ja"
      [] text = "Ja" -> "ja"
      [] text = "TRUE" -> "true"
      [] text = "True" -> "true"
      [] text = "YES" -> "yes"
      [] text = "Yes" -> "yes"
      [] OTHER -> text

ParseOption(value) == Lower(value) \in {"true", "1", "ja", "yes"}

UpTo(text, sep) ==
    LET cuts == {i \in 1..Len(text) : text[i] = sep}
    IN  IF cuts = {} THEN text
        ELSE SubSeq(text, 1, (CHOOSE i \in cuts : \A j \in cuts : i <= j) - 1)

AddPartLatestWins(parts, val) ==
    LET part == Strip(val)
    IN  IF part = <<>> THEN parts
        ELSE Append(SelectSeq(parts, LAMBDA p : LowerText(p) # LowerText(part)), part)

AddPart(parts, val) ==
    LET part == Strip(val)
    IN  IF part = <<>> THEN parts
        ELSE IF \E i \in 1..Len(parts) : LowerText(parts[i]) = LowerText(part)
        THEN parts
        ELSE Append(parts, part)

RECURSIVE AddParts(_, _)
AddParts(parts, vals) ==
    IF vals = <<>> THEN parts
    ELSE AddParts(AddPart(parts, Head(vals)), Tail(vals))

ChapterName(chapter_names, kode) ==
    LET hits == SelectSeq(chapter_names,
                          LAMBDA e : Strip(e.kode) = kode /\ Strip(e.kode) # <<>>
                                        /\ Strip(e.navn) # <<>>)
    IN  IF hits = <<>> THEN <<>> ELSE Strip(hits[1].navn)

XmlRecord(post, chapter_names) ==
    LET numbers == XmlNumbers(XmlText(post.mengde), XmlText(post.pris), XmlText(post.sum))
        postnr == Strip(post.postnr)
        kapittel == IF Strip(post.type1) # <<>> THEN Strip(post.type1)
                    ELSE UpTo(postnr, ".")
        ns_title == Strip(post.overskrift)
        tekst_main == Strip(post.uformatert)
        parts == AddParts(<<>>, <<ns_title, tekst_main>> \o post.fragments)
    IN  [postnr |-> postnr,
         beskrivelse |-> IF ns_title # <<>> THEN ns_title
                         ELSE IF parts # <<>> THEN parts[1] ELSE tekst_main,
         enhet |-> Strip(post.enhet),
         qty |-> Some(Amount(numbers.qty)),
         unit_price |-> Some(numbers.unit_price.value),
         sum_amount |-> Some(Amount(numbers.sum_amount)),
         kapittel |-> kapittel,
         kapittel_navn |-> ChapterName(chapter_names, kapittel),
         ns_code |-> Strip(post.kode_id),
         ns_title |-> ns_title,
         specification |-> Join(<<NL, NL>>, parts),
         is_option |-> ParseOption(post.opsjon)]

ParseNs3459Xml(doc) == [i \in 1..Len(doc.lines) |-> XmlRecord(doc.lines[i], doc.plan)]

ChapterOf(value) ==
    LET text == Strip(Str(value))
    IN  IF Len(text) >= 2 THEN SubSeq(text, 1, 2) ELSE <<"0", "0">>

TableRecord(doc, row) ==
    LET numbers == NormalizedNumbers(doc, TableCell(row.mengde), TableCell(row.pris),
                                     TableCell(row.sum))
    IN  [postnr |-> row.postnr,
         beskrivelse |-> row.uformatert,
         enhet |-> row.enhet,
         qty |-> Some(Amount(numbers.qty)),
         unit_price |-> IF doc.has_price THEN Some(numbers.unit_price.value) ELSE None,
         sum_amount |-> Some(Amount(numbers.sum_amount)),
         kapittel |-> ChapterOf(row.postnr),
         kapittel_navn |-> <<>>,
         ns_code |-> <<>>,
         ns_title |-> <<>>,
         specification |-> Str(row.uformatert),
         is_option |-> FALSE]

NormalizeColumns(doc) == [i \in 1..Len(doc.lines) |-> TableRecord(doc, doc.lines[i])]

ExtractCompanyName(doc) == doc.company

(***************************************************************************)
(* bid_compare, lines 654-682: one turn of the loop over the uploads.      *)
(***************************************************************************)
Names(d) == [i \in 1..Len(d) |-> d[i].name]

DictSetFirst(d, key, df) ==
    IF \E i \in 1..Len(d) : d[i].name = key
    THEN [i \in 1..Len(d) |-> IF d[i].name = key THEN [name |-> key, df |-> df] ELSE d[i]]
    ELSE <<[name |-> key, df |-> df]>> \o d

DictSet(d, key, df) ==
    IF \E i \in 1..Len(d) : d[i].name = key
    THEN [i \in 1..Len(d) |-> IF d[i].name = key THEN [name |-> key, df |-> df] ELSE d[i]]
    ELSE Append(d, [name |-> key, df |-> df])

Suffixed(candidate, counter) == candidate \o " (" \o ToString(counter) \o ")"

RECURSIVE Probe(_, _, _, _)
Probe(candidate, unique_name, counter, taken) ==
    IF unique_name \in taken
    THEN Probe(candidate, Suffixed(candidate, counter + 1), counter + 1, taken)
    ELSE unique_name

UniqueNameOnce(candidate, d) ==
    IF candidate \in Range(Names(d)) THEN Suffixed(candidate, 2) ELSE candidate

UniqueName(candidate, d) == Probe(candidate, candidate, 1, Range(Names(d)))

UploadName(doc, d) ==
    IF doc.filename # "" THEN doc.filename ELSE "bid_" \o ToString(Len(d) + 1)

Failure(doc, name) ==
    CASE doc.data = "empty" -> name \o " is empty."
      [] doc.data = "malformed" -> "Could not read " \o name \o ": not well-formed"
      [] doc.data = "noposts" -> "No posts found in " \o name
      [] doc.data = "unreadable" -> "Could not read " \o name \o ": no reader"
      [] OTHER -> ""

Registered(d, doc, name) ==
    LET df_clean == IF doc.kind = "xml" THEN ParseNs3459Xml(doc) ELSE NormalizeColumns(doc)
        candidate == IF doc.kind = "xml" /\ ExtractCompanyName(doc) # ""
                     THEN ExtractCompanyName(doc)
                     ELSE name
    IN  DictSet(d, UniqueName(candidate, d), df_clean)

UploadUncaught(doc) ==
    /\ pc = "loading"
    /\ Len(files) < MaxFiles
    /\ files' = Append(files, doc)
    /\ errors' = errors
    /\ IF doc.data # "ok"
       THEN pc' = "failed" /\ bids' = bids
       ELSE pc' = pc /\ bids' = Registered(bids, doc, UploadName(doc, bids))
    /\ UNCHANGED <<matrix, chapter, summary, agg_df, agg_out, agg_again, titleVars, numVars, partVars, cli_winner>>

Upload(doc) ==
    /\ pc = "loading"
    /\ Len(files) < MaxFiles
    /\ files' = Append(files, doc)
    /\ IF doc.data # "ok"
       THEN /\ errors' = Append(errors, Failure(doc, UploadName(doc, bids)))
            /\ bids' = bids
       ELSE /\ bids' = Registered(bids, doc, UploadName(doc, bids))
            /\ errors' = errors
    /\ UNCHANGED <<pc, matrix, chapter, summary, agg_df, agg_out, agg_again, titleVars, numVars, partVars, cli_winner>>

(***************************************************************************)
(* bid_compare, lines 687-864: the comparison matrix.                      *)
(***************************************************************************)
IsBase(r) == r.is_option # TRUE

IsOption(r) == r.is_option = TRUE

BaseRowsWithOptions(df) == df

BaseRows(df) == SelectSeq(df, IsBase)

OptionTotal(df) == SumSeq(Column(SelectSeq(df, IsOption), SumOf))

BaseBids(d) == [i \in 1..Len(d) |-> [name |-> d[i].name, df |-> BaseRows(d[i].df)]]

Parts(d) == [i \in 1..Len(d) |-> AggregateBidRows(BaseRows(d[i].df))]

MergedCodesOfFirst(parts) ==
    SortCodes({parts[1][k].postnr : k \in 1..Len(parts[1])})

MergedCodes(parts) ==
    SortCodes(UNION {{parts[i][k].postnr : k \in 1..Len(parts[i])} : i \in 1..Len(parts)})

CellZeroFilled(part, postnr) ==
    LET hits == SelectSeq(part, LAMBDA r : r.postnr = postnr)
    IN  IF hits = <<>> THEN [unit |-> Some(RInt(0)), total |-> Some(0)]
        ELSE [unit |-> hits[1].unit, total |-> hits[1].total]

Cell(part, postnr) ==
    LET hits == SelectSeq(part, LAMBDA r : r.postnr = postnr)
    IN  IF hits = <<>> THEN [unit |-> None, total |-> None]
        ELSE [unit |-> hits[1].unit, total |-> hits[1].total]

Present(totals) == SelectSeq(totals, LAMBDA t : t # None)

Values(totals) == [i \in 1..Len(Present(totals)) |-> Present(totals)[i][1]]

MinOf(xs) == CHOOSE m \in Range(xs) : \A x \in Range(xs) : m <= x

MaxOf(xs) == CHOOSE m \in Range(xs) : \A x \in Range(xs) : x <= m

IdxMinLast(totals) ==
    IF Present(totals) = <<>> THEN 0
    ELSE CHOOSE i \in 1..Len(totals) :
            /\ totals[i] = Some(MinOf(Values(totals)))
            /\ \A j \in (i + 1)..Len(totals) : totals[j] # totals[i]

IdxMin(totals) ==
    IF Present(totals) = <<>> THEN 0
    ELSE CHOOSE i \in 1..Len(totals) :
            /\ totals[i] = Some(MinOf(Values(totals)))
            /\ \A j \in 1..(i - 1) : totals[j] # totals[i]

Square(x) == x * x

Variance(xs) ==
    Rat(Len(xs) * SumSeq(Column(xs, Square)) - SumSeq(xs) * SumSeq(xs),
        Len(xs) * (Len(xs) - 1))

RowVariance(xs) == IF Len(xs) < 2 THEN None ELSE Some(Variance(xs))

RowMean(xs) == IF xs = <<>> THEN None ELSE Some(Mean(xs))

StdDev(variance) == IF variance = None THEN <<>> ELSE Root(RInt(1), variance[1])

StdPct(variance, mean) ==
    IF variance = None \/ mean = None \/ mean = Some(RInt(0)) THEN <<>>
    ELSE Root(RDiv(RInt(100), mean[1]), variance[1])

ZScoreAboutZero(total, variance, mean) ==
    IF total = None \/ variance = None \/ mean = None \/ variance = Some(RInt(0)) THEN <<>>
    ELSE Root(RInt(total[1]), RDiv(RInt(1), variance[1]))

ZScore(total, variance, mean) ==
    IF total = None \/ variance = None \/ mean = None \/ variance = Some(RInt(0)) THEN <<>>
    ELSE Root(RSub(RInt(total[1]), mean[1]), RDiv(RInt(1), variance[1]))

ZScoreThreshold == 3

MatrixRowScoredByRow(postnr, names, parts) ==
    LET n == Len(names)
        unit == [i \in 1..n |-> Cell(parts[i], postnr).unit]
        total == [i \in 1..n |-> Cell(parts[i], postnr).total]
        xs == Values(total)
        variance == RowVariance(xs)
        snitt_series == RowMean(xs)
    IN  [postnr |-> postnr,
         unit |-> unit,
         total |-> total,
         vinner |-> IF IdxMin(total) = 0 THEN "" ELSE names[IdxMin(total)],
         lavest_sum |-> IF xs = <<>> THEN Some(0) ELSE Some(MinOf(xs)),
         std_avvik |-> Some(StdDev(variance)),
         snitt |-> IF snitt_series = Some(RInt(0)) THEN None ELSE snitt_series,
         std_pct |-> Some(StdPct(variance, snitt_series)),
         z |-> IF Len(xs) >= ZScoreThreshold
               THEN [i \in 1..n |-> Some(ZScore(total[i], variance, snitt_series))]
               ELSE <<>>]

MatrixRow(postnr, names, parts) ==
    LET n == Len(names)
        unit == [i \in 1..n |-> Cell(parts[i], postnr).unit]
        total == [i \in 1..n |-> Cell(parts[i], postnr).total]
        xs == Values(total)
        variance == RowVariance(xs)
        snitt_series == RowMean(xs)
    IN  [postnr |-> postnr,
         unit |-> unit,
         total |-> total,
         vinner |-> IF IdxMin(total) = 0 THEN "" ELSE names[IdxMin(total)],
         lavest_sum |-> IF xs = <<>> THEN Some(0) ELSE Some(MinOf(xs)),
         std_avvik |-> Some(StdDev(variance)),
         snitt |-> IF snitt_series = Some(RInt(0)) THEN None ELSE snitt_series,
         std_pct |-> Some(StdPct(variance, snitt_series)),
         z |-> IF n >= ZScoreThreshold
               THEN [i \in 1..n |-> Some(ZScore(total[i], variance, snitt_series))]
               ELSE <<>>]

SumCode == <<"S", "U", "M">>

ColumnSum(rows, Get(_)) == SumSeq(Column(SelectSeq(rows, LAMBDA r : Get(r) # None),
                                         LAMBDA r : Get(r)[1]))

MatrixSumLowestOfSums(rows, names) ==
    [postnr |-> SumCode,
     unit |-> [i \in 1..Len(names) |-> None],
     total |-> [i \in 1..Len(names) |-> Some(ColumnSum(rows, LAMBDA r : r.total[i]))],
     vinner |-> "",
     lavest_sum |->
        Some(MinOf([i \in 1..Len(names) |-> ColumnSum(rows, LAMBDA r : r.total[i])])),
     std_avvik |-> Some(RootSum(Column(rows, LAMBDA r : r.std_avvik[1]))),
     snitt |-> None,
     std_pct |-> None,
     z |-> IF Len(names) >= ZScoreThreshold THEN [i \in 1..Len(names) |-> None] ELSE <<>>]

MatrixSum(rows, names) ==
    [postnr |-> SumCode,
     unit |-> [i \in 1..Len(names) |-> None],
     total |-> [i \in 1..Len(names) |-> Some(ColumnSum(rows, LAMBDA r : r.total[i]))],
     vinner |-> "",
     lavest_sum |-> Some(ColumnSum(rows, LAMBDA r : r.lavest_sum)),
     std_avvik |-> Some(RootSum(Column(rows, LAMBDA r : r.std_avvik[1]))),
     snitt |-> None,
     std_pct |-> None,
     z |-> IF Len(names) >= ZScoreThreshold THEN [i \in 1..Len(names) |-> None] ELSE <<>>]

RECURSIVE Flatten(_)
Flatten(s) == IF s = <<>> THEN <<>> ELSE Head(s) \o Flatten(Tail(s))

HasMeta(d) ==
    \E i \in 1..Len(d) : \E k \in 1..Len(d[i].df) :
        IsBase(d[i].df[k]) /\ Strip(Str(d[i].df[k].postnr)) # <<>>

MatrixColumns(names, has_meta) ==
    (IF has_meta THEN <<"kapittel", "kapittel_navn">> ELSE <<>>)
    \o <<"postnr", "ns_code", "specification", "enhet", "qty">>
    \o Flatten([i \in 1..Len(names) |-> <<names[i] \o " (enhetspris)", names[i] \o " (sum)">>])
    \o <<"vinner", "lavest_sum", "std_avvik", "snitt", "std_pct">>
    \o (IF Len(names) >= ZScoreThreshold
        THEN [i \in 1..Len(names) |-> names[i] \o " (z-score)"]
        ELSE <<>>)

Text(value) == Strip(Str(value))

RowQty(row) == Amount(ToFloat(NumberCell(Finite(RInt(row.qty[1])))))

NoMeta ==
    [kapittel |-> <<>>, kapittel_navn |-> <<>>, ns_code |-> <<>>, specification |-> <<>>,
     enhet |-> <<>>, qty |-> None]

MetaUpdate(entry, row) ==
    [kapittel |-> IF Text(row.kapittel) # <<>> /\ entry.kapittel = <<>>
                  THEN Text(row.kapittel) ELSE entry.kapittel,
     kapittel_navn |-> IF Text(row.kapittel_navn) # <<>> /\ entry.kapittel_navn = <<>>
                       THEN Text(row.kapittel_navn) ELSE entry.kapittel_navn,
     ns_code |-> IF entry.ns_code = <<>> /\ Text(row.ns_code) # <<>>
                 THEN Text(row.ns_code) ELSE entry.ns_code,
     specification |-> IF entry.specification = <<>> /\ Text(row.specification) # <<>>
                       THEN Text(row.specification) ELSE entry.specification,
     enhet |-> IF entry.enhet = <<>> /\ Text(row.enhet) # <<>>
               THEN Text(row.enhet) ELSE entry.enhet,
     qty |-> IF entry.qty \in {None, Some(0)}
             THEN IF entry.qty = None \/ RowQty(row) # 0 THEN Some(RowQty(row))
                  ELSE entry.qty
             ELSE entry.qty]

RECURSIVE MetaScan(_, _, _)
MetaScan(entry, rows, postnr) ==
    IF rows = <<>> THEN entry
    ELSE MetaScan(IF Text(Head(rows).postnr) = postnr THEN MetaUpdate(entry, Head(rows))
                  ELSE entry,
                  Tail(rows), postnr)

PostMeta(d, postnr) ==
    LET rows == Flatten([i \in 1..Len(d) |-> BaseRows(d[i].df)])
    IN  IF postnr # <<>> /\ \E k \in 1..Len(rows) : Text(rows[k].postnr) = postnr
        THEN MetaScan(NoMeta, rows, postnr)
        ELSE [NoMeta EXCEPT !.qty = Some(0)]

WithMeta(row, meta) ==
    [f \in DOMAIN row \cup {"meta"} |-> IF f = "meta" THEN meta ELSE row[f]]

MatrixDisp(d) ==
    LET names == Names(d)
        parts == Parts(d)
        codes == MergedCodes(parts)
        rows == [k \in 1..Len(codes) |->
                    WithMeta(MatrixRow(codes[k], names, parts), PostMeta(d, codes[k]))]
    IN  [columns |-> MatrixColumns(names, HasMeta(d)),
         rows |-> IF rows = <<>> THEN <<>>
                  ELSE Append(rows, WithMeta(MatrixSum(rows, names), NoMeta))]

(***************************************************************************)
(* bid_compare, lines 877-933: the chapter summary.                        *)
(***************************************************************************)
(***************************************************************************)
(* _collect_chapter_titles, lines 323-381.  The titles dict is a sequence  *)
(* of (code, title) pairs in the order of their insertion.  Of the four    *)
(* separators of line 339 the texts of the model hold "-" and "/".         *)
(***************************************************************************)
CollapseSpaces(text) ==
    LET marked == [i \in 1..Len(text) |->
                      [char |-> IF text[i] \in Spaces THEN " " ELSE text[i],
                       first |-> text[i] \notin Spaces \/ i = 1 \/ text[i - 1] \notin Spaces]]
        kept == SelectSeq(marked, LAMBDA m : m.first)
    IN  [i \in 1..Len(kept) |-> kept[i].char]

RECURSIVE RStripChars(_, _)
RStripChars(text, chars) ==
    IF text # <<>> /\ text[Len(text)] \in chars
    THEN RStripChars(SubSeq(text, 1, Len(text) - 1), chars)
    ELSE text

Title(text) ==
    [i \in 1..Len(text) |->
        IF ~IsAlpha(text[i]) THEN text[i]
        ELSE IF i > 1 /\ IsAlpha(text[i - 1]) THEN LowerChar(text[i])
        ELSE UpperChar(text[i])]

RECURSIVE Rebuilt(_)
Rebuilt(lowered) ==
    LET cuts == {i \in 1..Len(lowered) : lowered[i] \in {"-", "/"}}
        cut == CHOOSE i \in cuts : \A j \in cuts : i <= j
    IN  IF cuts = {} THEN Title(lowered)
        ELSE Title(SubSeq(lowered, 1, cut - 1)) \o <<lowered[cut]>>
                 \o Rebuilt(SubSeq(lowered, cut + 1, Len(lowered)))

Normalize(text) ==
    LET collapsed == RStripChars(CollapseSpaces(Strip(text)), {" ", ".", ";", "-"})
        letters == SelectSeq(collapsed, IsAlpha)
        uppers == SelectSeq(collapsed, IsUpper)
    IN  IF collapsed = <<>> THEN <<>>
        ELSE IF letters # <<>> /\ 10 * Len(uppers) >= 6 * Len(letters)
        THEN Rebuilt(LowerText(collapsed))
        ELSE collapsed

TitleCandidates(row) ==
    LET ns_title == Text(row.ns_title)
        specification == Text(row.specification)
        spec_line == Strip(UpTo(specification, NL))
        description == Text(row.beskrivelse)
    IN  (IF ns_title # <<>> THEN <<ns_title>> ELSE <<>>)
            \o (IF specification # <<>> /\ spec_line # <<>> THEN <<spec_line>> ELSE <<>>)
            \o (IF description # <<>> THEN <<description>> ELSE <<>>)

AcceptedCandidates(row) ==
    LET Accepted(candidate) ==
            /\ LowerText(candidate) # <<"s", "u", "m">>
            /\ Normalize(candidate) # <<>>
    IN  SelectSeq(TitleCandidates(row), Accepted)

Truncated(normalized) ==
    IF Len(normalized) <= 120 THEN normalized
    ELSE SubSeq(normalized, 1, 117) \o <<".", ".", ".">>

HasTitle(map, code) == \E i \in 1..Len(map) : map[i].code = code

TitleStepLastWins(map, row) ==
    LET code == Text(row.kapittel)
        chapter_name == Normalize(Str(row.kapittel_navn))
        accepted == AcceptedCandidates(row)
        others == SelectSeq(map, LAMBDA e : e.code # code)
    IN  IF code = <<>> THEN map
        ELSE IF chapter_name # <<>>
        THEN Append(others, [code |-> code, title |-> chapter_name])
        ELSE IF accepted # <<>>
        THEN Append(others, [code |-> code, title |-> Truncated(Normalize(accepted[1]))])
        ELSE map

TitleStepFallbackFirst(map, row) ==
    LET code == Text(row.kapittel)
        chapter_name == Normalize(Str(row.kapittel_navn))
        accepted == AcceptedCandidates(row)
    IN  IF code = <<>> \/ HasTitle(map, code) THEN map
        ELSE IF accepted # <<>>
        THEN Append(map, [code |-> code, title |-> Truncated(Normalize(accepted[1]))])
        ELSE IF chapter_name # <<>>
        THEN Append(map, [code |-> code, title |-> chapter_name])
        ELSE map

TitleStep(map, row) ==
    LET code == Text(row.kapittel)
        chapter_name == Normalize(Str(row.kapittel_navn))
        accepted == AcceptedCandidates(row)
    IN  IF code = <<>> \/ HasTitle(map, code) THEN map
        ELSE IF chapter_name # <<>>
        THEN Append(map, [code |-> code, title |-> chapter_name])
        ELSE IF accepted # <<>>
        THEN Append(map, [code |-> code, title |-> Truncated(Normalize(accepted[1]))])
        ELSE map

AllRows(d) == Flatten([i \in 1..Len(d) |-> d[i].df])

RECURSIVE TitleScan(_, _)
TitleScan(map, rows) ==
    IF rows = <<>> THEN map ELSE TitleScan(TitleStep(map, Head(rows)), Tail(rows))

CollectChapterTitles(d) == TitleScan(<<>>, AllRows(d))

TitleOf(map, code) ==
    IF HasTitle(map, code) THEN (CHOOSE e \in Range(map) : e.code = code).title ELSE <<>>

ChapterPart(df) ==
    LET keys == SortCodes({df[i].kapittel : i \in 1..Len(df)})
    IN  [k \in 1..Len(keys) |->
            [kapittel |-> keys[k],
             sum |-> SumSeq(Column(SelectSeq(df, LAMBDA r : r.kapittel = keys[k]), SumOf))]]

ChapterProviders(base) == SelectSeq(base, LAMBDA b : b.df # <<>>)

ChapterCell(part, kapittel) ==
    LET hits == SelectSeq(part, LAMBDA r : r.kapittel = kapittel)
    IN  IF hits = <<>> THEN 0 ELSE hits[1].sum

FirstMin(sums) ==
    CHOOSE i \in 1..Len(sums) :
        /\ sums[i] = MinOf(sums)
        /\ \A j \in 1..(i - 1) : sums[j] # sums[i]

ChapterRow(kapittel, providers, parts) ==
    LET sums == [i \in 1..Len(providers) |-> ChapterCell(parts[i], kapittel)]
        min_value == MinOf(sums)
        max_value == MaxOf(sums)
        equal == \A i \in 1..Len(sums) : sums[i] = min_value
    IN  [kapittel |-> kapittel,
         laveste_tilbyder |-> IF equal THEN "N/A" ELSE providers[FirstMin(sums)].name,
         laveste_sum |-> Some(IF equal THEN 0 ELSE min_value),
         spann_pct |-> Some(IF equal \/ min_value = 0 THEN RInt(0)
                            ELSE Rat((max_value - min_value) * 100, min_value)),
         total |-> sums]

ChapterSumOfLowest(rows, providers) ==
    [kapittel |-> SumCode,
     laveste_tilbyder |-> "",
     laveste_sum |-> Some(ColumnSum(rows, LAMBDA r : r.laveste_sum)),
     spann_pct |-> None,
     total |-> [i \in 1..Len(providers) |-> ColumnSum(rows, LAMBDA r : r.laveste_sum)]]

ChapterSum(rows, providers) ==
    [kapittel |-> SumCode,
     laveste_tilbyder |-> "",
     laveste_sum |-> Some(ColumnSum(rows, LAMBDA r : r.laveste_sum)),
     spann_pct |-> None,
     total |-> [i \in 1..Len(providers) |-> SumSeq(Column(rows, LAMBDA r : r.total[i]))]]

ChapterDisp(d) ==
    LET providers == ChapterProviders(BaseBids(d))
        parts == [i \in 1..Len(providers) |-> ChapterPart(providers[i].df)]
        codes == SortCodes(UNION {{parts[i][k].kapittel : k \in 1..Len(parts[i])} :
                                    i \in 1..Len(parts)})
        chapter_titles == CollectChapterTitles(d)
        rows == [k \in 1..Len(codes) |->
                    [kapittel_navn |-> TitleOf(chapter_titles, codes[k])]
                        @@ ChapterRow(codes[k], providers, parts)]
    IN  IF rows = <<>> THEN [columns |-> <<"kapittel">>, rows |-> <<>>]
        ELSE [columns |-> <<"kapittel", "kapittel_navn", "laveste_tilbyder",
                            "laveste_sum", "spann_pct">> \o Names(providers),
              rows |-> Append(rows, [kapittel_navn |-> <<>>] @@ ChapterSum(rows, providers))]

(***************************************************************************)
(* bid_compare, lines 935-955: the summary record.                         *)
(***************************************************************************)
BaseTotal(df) == SumSeq(Column(df, SumOf))

SummaryAlwaysWinner(d) ==
    LET base == BaseBids(d)
        totals == [i \in 1..Len(base) |-> BaseTotal(base[i].df)]
    IN  [totals |-> [i \in 1..Len(base) |-> [name |-> base[i].name, total |-> totals[i]]],
         option_totals |->
            [i \in 1..Len(d) |-> [name |-> d[i].name, total |-> OptionTotal(d[i].df)]],
         winner |-> [name |-> base[FirstMin(totals)].name, total |-> MinOf(totals)],
         post_count |->
            Cardinality(UNION {{base[i].df[k].postnr : k \in 1..Len(base[i].df)} :
                                 i \in 1..Len(base)})]

Summary(d) ==
    LET base == BaseBids(d)
        totals == [i \in 1..Len(base) |-> BaseTotal(base[i].df)]
        even == MaxOf(totals) - MinOf(totals) = 0
    IN  [totals |-> [i \in 1..Len(base) |-> [name |-> base[i].name, total |-> totals[i]]],
         option_totals |->
            [i \in 1..Len(d) |-> [name |-> d[i].name, total |-> OptionTotal(d[i].df)]],
         winner |-> IF even THEN [name |-> "", total |-> 0]
                    ELSE [name |-> base[FirstMin(totals)].name, total |-> MinOf(totals)],
         post_count |->
            Cardinality(UNION {{base[i].df[k].postnr : k \in 1..Len(base[i].df)} :
                                 i \in 1..Len(base)})]

(***************************************************************************)
(* bid_compare as a whole: the uploads are taken one by one, then the      *)
(* request is refused or answered.                                         *)
(***************************************************************************)
NoTable == [columns |-> <<>>, rows |-> <<>>]

(***************************************************************************)
(* bid_compare_cli.py, lines 209-214 and 49-71: the command-line pipeline  *)
(* on the registered bids: base totals and the winner line it prints.      *)
(***************************************************************************)
PrintedWinner(d) ==
    LET base == BaseBids(d)
        totals == [i \in 1..Len(base) |-> BaseTotal(base[i].df)]
    IN  IF totals = <<>> THEN None
        ELSE Some([name |-> base[FirstMin(totals)].name, total |-> MinOf(totals)])

NoSummary == [totals |-> <<>>, option_totals |-> <<>>,
              winner |-> [name |-> "", total |-> 0], post_count |-> 0]

Init ==
    /\ pc = "loading"
    /\ files = <<>>
    /\ bids = <<>>
    /\ errors = <<>>
    /\ matrix = NoTable
    /\ chapter = NoTable
    /\ summary = NoSummary
    /\ agg_df = <<>>
    /\ agg_out = <<>>
    /\ agg_again = <<>>
    /\ titles = <<>>
    /\ scan = <<>>
    /\ num_cell = NoCell
    /\ num_field = ""
    /\ num_float = None
    /\ num_line = None
    /\ num_row = None
    /\ cli_winner = None
    /\ spec_parts = <<>>
    /\ added = <<>>

RejectNoFiles ==
    /\ pc = "loading"
    /\ files = <<>>
    /\ pc' = "failed"
    /\ UNCHANGED <<files, bids, errors, matrix, chapter, summary, agg_df, agg_out, agg_again, titleVars, numVars, partVars, cli_winner>>

RejectAnyFailure ==
    /\ pc = "loading"
    /\ files # <<>>
    /\ errors # <<>>
    /\ pc' = "failed"
    /\ UNCHANGED <<files, bids, errors, matrix, chapter, summary, agg_df, agg_out, agg_again, titleVars, numVars, partVars, cli_winner>>

RejectNoBids ==
    /\ pc = "loading"
    /\ files # <<>>
    /\ bids = <<>>
    /\ pc' = "failed"
    /\ UNCHANGED <<files, bids, errors, matrix, chapter, summary, agg_df, agg_out, agg_again, titleVars, numVars, partVars, cli_winner>>

Compare ==
    /\ pc = "loading"
    /\ bids # <<>>
    /\ pc' = "done"
    /\ matrix' = MatrixDisp(bids)
    /\ chapter' = ChapterDisp(bids)
    /\ summary' = Summary(bids)
    /\ UNCHANGED <<files, bids, errors, agg_df, agg_out, agg_again, titleVars, numVars, partVars, cli_winner>>

(***************************************************************************)
(* The command-line pipeline run on the same registered bids, in the same  *)
(* order, as the comparison just made.                                     *)
(***************************************************************************)
PrintSummary ==
    /\ pc = "done"
    /\ cli_winner = None
    /\ cli_winner' = PrintedWinner(bids)
    /\ UNCHANGED <<pc, files, bids, errors, matrix, chapter, summary, agg_df, agg_out,
                   agg_again, titleVars, numVars, partVars>>

(***************************************************************************)
(* _aggregate_bid_rows on its own: it is given a frame of at most MaxRows  *)
(* rows, and then its own result, read as line items without quantity.     *)
(***************************************************************************)
FrameRows ==
    [postnr : {P0101, P0201},
     qty : {None, Some(-1), Some(0), Some(1), Some(3)},
     unit_price : {None, Some(RInt(10)), Some(RInt(40))},
     sum_amount : {None, Some(7)}]

Frames == UNION {[1..n -> FrameRows] : n \in 0..MaxRows}

AsFrame(out) ==
    [i \in 1..Len(out) |->
        [postnr |-> out[i].postnr, qty |-> None,
         unit_price |-> out[i].unit, sum_amount |-> out[i].total]]

InitAgg ==
    /\ pc = "frame"
    /\ agg_df \in Frames
    /\ agg_out = <<>>
    /\ agg_again = <<>>
    /\ files = <<>>
    /\ bids = <<>>
    /\ errors = <<>>
    /\ matrix = NoTable
    /\ chapter = NoTable
    /\ summary = NoSummary
    /\ titles = <<>>
    /\ scan = <<>>
    /\ num_cell = NoCell
    /\ num_field = ""
    /\ num_float = None
    /\ num_line = None
    /\ num_row = None
    /\ cli_winner = None
    /\ spec_parts = <<>>
    /\ added = <<>>

Aggregate ==
    /\ pc = "frame"
    /\ pc' = "aggregated"
    /\ agg_out' = AggregateBidRows(agg_df)
    /\ UNCHANGED <<files, bids, errors, matrix, chapter, summary, agg_df, agg_again, titleVars, numVars, partVars, cli_winner>>

AggregateAgain ==
    /\ pc = "aggregated"
    /\ pc' = "aggregated twice"
    /\ agg_again' = AggregateBidRows(AsFrame(agg_out))
    /\ UNCHANGED <<files, bids, errors, matrix, chapter, summary, agg_df, agg_out, titleVars, numVars, partVars, cli_winner>>

NextAgg == Aggregate \/ AggregateAgain

SpecAgg == InitAgg /\ [][NextAgg]_vars

(***************************************************************************)
(* The numeric conversions on one raw cell: _to_float on the cell, the     *)
(* numbers of an XML line that holds the cell in one of its three          *)
(* elements, and the numbers of a table row that holds it in one of its    *)
(* three numeric columns.                                                  *)
(***************************************************************************)
Cells ==
    LET chars == {"1", "5", " ", Nbsp, ",", ".", "-", "x"}
        words == {<<"i", "n", "f">>, <<"-", "i", "n", "f">>, <<"n", "a", "n">>,
                  <<"N", "a", "N">>, <<"I", "n", "f", "i", "n", "i", "t", "y">>}
        texts == UNION {[1..n -> chars] : n \in 0..MaxText} \cup words
    IN  {NoCell, NumberCell(Finite(RInt(5))), NumberCell(NotANumber)}
            \cup {TextCell(text) : text \in texts}

NumFields == {"qty", "unit_price", "sum_amount"}

InitNum ==
    /\ pc = "cell"
    /\ num_cell \in Cells
    /\ num_field \in NumFields
    /\ num_float = None
    /\ num_line = None
    /\ num_row = None
    /\ cli_winner = None
    /\ spec_parts = <<>>
    /\ added = <<>>
    /\ titles = <<>>
    /\ scan = <<>>
    /\ agg_df = <<>>
    /\ agg_out = <<>>
    /\ agg_again = <<>>
    /\ files = <<>>
    /\ bids = <<>>
    /\ errors = <<>>
    /\ matrix = NoTable
    /\ chapter = NoTable
    /\ summary = NoSummary

ParseNumber ==
    /\ pc = "cell"
    /\ num_float = None
    /\ num_float' = Some(ToFloat(num_cell))
    /\ UNCHANGED <<pc, files, bids, errors, matrix, chapter, summary, agg_df, agg_out,
                   agg_again, titleVars, num_cell, num_field, num_line, num_row, partVars, cli_winner>>

ParseXmlLine ==
    /\ pc = "cell"
    /\ num_line = None
    /\ num_cell.kind # "number"
    /\ num_line' =
           Some(XmlNumbers(
               IF num_field = "qty" THEN num_cell ELSE TextCell(<<"2">>),
               IF num_field = "unit_price" THEN num_cell ELSE TextCell(<<"2">>),
               IF num_field = "sum_amount" THEN num_cell ELSE NoCell))
    /\ UNCHANGED <<pc, files, bids, errors, matrix, chapter, summary, agg_df, agg_out,
                   agg_again, titleVars, num_cell, num_field, num_float, num_row, partVars, cli_winner>>

NormalizeRow ==
    /\ pc = "cell"
    /\ num_row = None
    /\ num_row' =
           Some(NormalizedNumbers([has_price |-> TRUE, has_sum |-> TRUE],
               IF num_field = "qty" THEN num_cell ELSE NumberCell(Finite(RInt(2))),
               IF num_field = "unit_price" THEN num_cell ELSE NumberCell(Finite(RInt(2))),
               IF num_field = "sum_amount" THEN num_cell ELSE NumberCell(Finite(RInt(4)))))
    /\ UNCHANGED <<pc, files, bids, errors, matrix, chapter, summary, agg_df, agg_out,
                   agg_again, titleVars, num_cell, num_field, num_float, num_line, partVars, cli_winner>>

NextNum == ParseNumber \/ ParseXmlLine \/ NormalizeRow

SpecNum == InitNum /\ [][NextNum]_vars

(***************************************************************************)
(* _collect_chapter_titles, lines 344-379, one row at a time: the two      *)
(* loops visit the rows of every registered bid, bids in the order of      *)
(* their registration and rows in the order of their document.             *)
(***************************************************************************)
RECURSIVE RegisterFrom(_, _)
RegisterFrom(d, docs) ==
    IF docs = <<>> THEN d
    ELSE RegisterFrom(Registered(d, Head(docs), UploadName(Head(docs), d)), Tail(docs))

TitleDocs == {doc \in Uploads : doc.data = "ok"} \cup {DocLongPlan, DocLongHeading}

InitTitles ==
    /\ pc = "titles"
    /\ files \in UNION {[1..n -> TitleDocs] : n \in 1..MaxBids}
    /\ bids = RegisterFrom(<<>>, files)
    /\ titles = <<>>
    /\ scan = AllRows(bids)
    /\ errors = <<>>
    /\ matrix = NoTable
    /\ chapter = NoTable
    /\ summary = NoSummary
    /\ agg_df = <<>>
    /\ agg_out = <<>>
    /\ agg_again = <<>>
    /\ num_cell = NoCell
    /\ num_field = ""
    /\ num_float = None
    /\ num_line = None
    /\ num_row = None
    /\ cli_winner = None
    /\ spec_parts = <<>>
    /\ added = <<>>

ScanRow ==
    /\ pc = "titles"
    /\ scan # <<>>
    /\ titles' = TitleStep(titles, Head(scan))
    /\ scan' = Tail(scan)
    /\ UNCHANGED <<pc, files, bids, errors, matrix, chapter, summary, agg_df, agg_out,
                   agg_again, numVars, partVars, cli_winner>>

ReturnTitles ==
    /\ pc = "titles"
    /\ scan = <<>>
    /\ pc' = "titled"
    /\ UNCHANGED <<files, bids, errors, matrix, chapter, summary, agg_df, agg_out,
                   agg_again, titleVars, numVars, partVars, cli_winner>>

NextTitles == ScanRow \/ ReturnTitles

SpecTitles == InitTitles /\ [][NextTitles]_vars

(***************************************************************************)
(* _parse_ns3459_xml, lines 218-254: the calls of add_part for one line,   *)
(* one call per step, each with any of the texts an element may hold.      *)
(***************************************************************************)
Fragments ==
    {<<>>, <<" ", NL>>, <<"A", "b">>, <<"a", "b">>, <<" ", "A", "B", Nbsp>>,
     <<"c", " ", "d">>, <<"C", " ", "d", " ">>}

InitParts ==
    /\ pc = "parts"
    /\ spec_parts = <<>>
    /\ added = <<>>
    /\ files = <<>>
    /\ bids = <<>>
    /\ errors = <<>>
    /\ matrix = NoTable
    /\ chapter = NoTable
    /\ summary = NoSummary
    /\ agg_df = <<>>
    /\ agg_out = <<>>
    /\ agg_again = <<>>
    /\ titles = <<>>
    /\ scan = <<>>
    /\ num_cell = NoCell
    /\ num_field = ""
    /\ num_float = None
    /\ num_line = None
    /\ num_row = None
    /\ cli_winner = None

AddFragment(val) ==
    /\ pc = "parts"
    /\ Len(added) < MaxAdds
    /\ spec_parts' = AddPart(spec_parts, val)
    /\ added' = Append(added, val)
    /\ UNCHANGED <<pc, files, bids, errors, matrix, chapter, summary, agg_df, agg_out,
                   agg_again, titleVars, numVars, cli_winner>>

NextParts == \E val \in Fragments : AddFragment(val)

SpecParts == InitParts /\ [][NextParts]_vars

Next ==
    \/ \E doc \in Uploads : Upload(doc)
    \/ RejectNoFiles
    \/ RejectNoBids
    \/ Compare
    \/ PrintSummary

Spec == Init /\ [][Next]_vars

(***************************************************************************)
(* What the claims speak of, read off the uploads themselves.              *)
(***************************************************************************)
Sound(doc) == doc.data = "ok"

SoundDocs == SelectSeq(files, Sound)

FailedDocs == SelectSeq(files, LAMBDA doc : ~Sound(doc))

Candidate(doc) == IF doc.kind = "xml" /\ doc.company # "" THEN doc.company ELSE doc.filename

Frame(doc) == IF doc.kind = "xml" THEN ParseNs3459Xml(doc) ELSE NormalizeColumns(doc)

Position(s, x) == CHOOSE k \in 1..Len(s) : s[k] = x

RECURSIVE SumOver(_, _)
SumOver(S, f) ==
    IF S = {} THEN 0
    ELSE LET x == CHOOSE x \in S : TRUE IN f[x] + SumOver(S \ {x}, f)

Plain(value) == IF value = NaN THEN <<>> ELSE Strip(value)

ItemRows == IF matrix.rows = <<>> THEN <<>> ELSE SubSeq(matrix.rows, 1, Len(matrix.rows) - 1)

(***************************************************************************)
(* C1.  Every supplied document ends in exactly one of two outcomes: it is *)
(* registered as exactly one provider (the providers before it untouched,  *)
(* no message), or it adds exactly one message to the error list (the      *)
(* providers untouched); a document that is empty, malformed, without      *)
(* priced lines or unreadable takes the second, and the loop goes on.  So  *)
(* the providers are as many as the sound documents, the messages as many  *)
(* as the failed ones, and the answer names the providers only.            *)
(***************************************************************************)
C1_OneOutcomePerDocument ==
    [][/\ (pc = "loading" /\ files' # files) =>
            LET doc == files'[Len(files')]
            IN  /\ pc' = "loading"
                /\ files' = Append(files, doc)
                /\ IF Sound(doc)
                   THEN /\ Len(bids') = Len(bids) + 1
                        /\ SubSeq(bids', 1, Len(bids)) = bids
                        /\ errors' = errors
                   ELSE /\ bids' = bids
                        /\ Len(errors') = Len(errors) + 1
                        /\ SubSeq(errors', 1, Len(errors)) = errors
                /\ Len(bids') = Len(SelectSeq(files', Sound))
                /\ Len(bids') + Len(errors') = Len(files')
       /\ pc' = "done" =>
            /\ bids' = bids /\ errors' = errors
            /\ Len(summary'.totals) = Len(SoundDocs)
            /\ [i \in 1..Len(summary'.totals) |-> summary'.totals[i].name] = Names(bids)
            /\ \A r \in Range(matrix'.rows) : Len(r.total) = Len(SoundDocs)
            /\ \A doc \in Range(FailedDocs) :
                  \A c \in Range(matrix'.columns) \cup Range(chapter'.columns) :
                      /\ c # doc.filename
                      /\ c # doc.filename \o " (sum)"
                      /\ c # doc.filename \o " (enhetspris)"]_vars

C1_Witness ==
    /\ pc = "done"
    /\ Len(files) = 3
    /\ Sound(files[1]) /\ ~Sound(files[2]) /\ Sound(files[3])
    /\ Len(bids) = 2
    /\ Len(errors) = 1

(***************************************************************************)
(* C2.  The batch fails if and only if no document parsed: a refused batch *)
(* holds no sound document and produces no table; an answered batch holds  *)
(* at least one, and its error list has one message per failed document;   *)
(* and at the end of the loop the request can be refused exactly when no   *)
(* document has parsed, and is compared (bids is not empty) otherwise.     *)
(***************************************************************************)
C2_FailsIffNothingParsed ==
    /\ pc = "failed" =>
          /\ SoundDocs = <<>>
          /\ matrix = NoTable /\ chapter = NoTable /\ summary = NoSummary
    /\ pc = "done" =>
          /\ SoundDocs # <<>>
          /\ Len(errors) = Len(FailedDocs)
          /\ matrix # NoTable /\ chapter # NoTable /\ summary # NoSummary
    /\ pc = "loading" =>
          /\ bids # <<>> <=> SoundDocs # <<>>
          /\ ENABLED (RejectNoFiles \/ RejectNoBids) <=> SoundDocs = <<>>

C2_Witness ==
    /\ pc = "done"
    /\ Len(SoundDocs) = 1
    /\ Len(errors) = 2

(***************************************************************************)
(* C3.  Provider names are pairwise distinct, and registering a document   *)
(* appends one provider and changes no earlier one: under the candidate    *)
(* name when no provider has it, otherwise under "candidate (n)" for the   *)
(* smallest n >= 2 that no provider has; no message is added.              *)
(***************************************************************************)
C3_UniqueNamesBySuffix ==
    [][(pc = "loading" /\ files' # files /\ Sound(files'[Len(files')])) =>
          LET doc == files'[Len(files')]
              taken == Range(Names(bids))
              free == {n \in 2..(Len(bids) + 2) : Suffixed(Candidate(doc), n) \notin taken}
              n == CHOOSE n \in free : \A m \in free : n <= m
          IN  /\ Len(bids') = Len(bids) + 1
              /\ SubSeq(bids', 1, Len(bids)) = bids
              /\ errors' = errors
              /\ bids'[Len(bids')].name =
                    IF Candidate(doc) \notin taken THEN Candidate(doc)
                    ELSE Suffixed(Candidate(doc), n)
              /\ \A i, j \in 1..Len(bids') : i # j => bids'[i].name # bids'[j].name]_vars

C3_Witness ==
    /\ Names(bids) = <<"Alfa (2)", "Alfa", "Alfa (3)">>
    /\ files = <<DocSuffixed, DocAlfa, DocTable>>

(***************************************************************************)
(* C4.  The providers are the sound documents in the order they were       *)
(* supplied: the i-th provider holds the frame of the i-th sound document, *)
(* under the name it would get had the failed documents never been         *)
(* supplied, and the answer lists the providers in that order.             *)
(***************************************************************************)
RECURSIVE NamesInOrder(_)
NamesInOrder(docs) ==
    IF docs = <<>> THEN <<>>
    ELSE LET before == NamesInOrder(SubSeq(docs, 1, Len(docs) - 1))
             c == Candidate(docs[Len(docs)])
             n == CHOOSE n \in 2..(Len(docs) + 1) :
                     /\ Suffixed(c, n) \notin Range(before)
                     /\ \A m \in 2..(n - 1) : Suffixed(c, m) \in Range(before)
         IN  Append(before, IF c \in Range(before) THEN Suffixed(c, n) ELSE c)

C4_OrderOfSupply ==
    /\ [i \in 1..Len(bids) |-> bids[i].df] = [i \in 1..Len(SoundDocs) |-> Frame(SoundDocs[i])]
    /\ Names(bids) = NamesInOrder(SoundDocs)
    /\ pc = "done" =>
          /\ [i \in 1..Len(summary.totals) |-> summary.totals[i].name] = NamesInOrder(SoundDocs)
          /\ \A i, j \in 1..Len(bids) : i < j =>
                /\ Position(matrix.columns, bids[i].name \o " (sum)")
                      < Position(matrix.columns, bids[j].name \o " (sum)")
                /\ Position(matrix.columns, bids[i].name \o " (enhetspris)")
                      < Position(matrix.columns, bids[j].name \o " (enhetspris)")
                /\ Len(bids) >= ZScoreThreshold =>
                      Position(matrix.columns, bids[i].name \o " (z-score)")
                         < Position(matrix.columns, bids[j].name \o " (z-score)")

C4_Witness ==
    /\ pc = "done"
    /\ files = <<DocBeta, DocNoPosts, DocAlfa>>
    /\ Names(bids) = <<"Beta", "Alfa">>
    /\ matrix.rows[1].vinner = "Beta"

(***************************************************************************)
(* C5.  Option lines count in the option total only.  For every provider:  *)
(* the base total is the sum of its non-option line totals, the option     *)
(* total the sum of its option line totals, and the two add up to the sum  *)
(* of all its line totals; its total in every item row of the matrix is    *)
(* the sum of its non-option lines of that item code (blank when it has    *)
(* none), and its total in every chapter row is the sum of its non-option  *)
(* lines of that chapter.                                                  *)
(***************************************************************************)
LineTotals(df) == [k \in 1..Len(df) |-> df[k].sum_amount[1]]

BaseLines(df) == {k \in 1..Len(df) : ~df[k].is_option}

OptionLines(df) == {k \in 1..Len(df) : df[k].is_option}

ItemLines(df, postnr) == {k \in BaseLines(df) : df[k].postnr = postnr}

ChapterLines(df, kapittel) == {k \in BaseLines(df) : df[k].kapittel = kapittel}

ChapterRows == IF chapter.rows = <<>> THEN <<>> ELSE SubSeq(chapter.rows, 1, Len(chapter.rows) - 1)

C5_OptionsApart ==
    pc = "done" =>
        /\ \A i \in 1..Len(bids) :
              LET df == bids[i].df
              IN  /\ summary.totals[i].total = SumOver(BaseLines(df), LineTotals(df))
                  /\ summary.option_totals[i].total = SumOver(OptionLines(df), LineTotals(df))
                  /\ summary.totals[i].total + summary.option_totals[i].total
                        = SumSeq(LineTotals(df))
                  /\ \A r \in Range(ItemRows) :
                        r.total[i] = IF ItemLines(df, r.postnr) = {} THEN None
                                     ELSE Some(SumOver(ItemLines(df, r.postnr), LineTotals(df)))
        /\ \A r \in Range(ChapterRows) : \A j \in 1..Len(r.total) :
              LET df == bids[Position(Names(bids), chapter.columns[5 + j])].df
              IN  r.total[j] = SumOver(ChapterLines(df, r.kapittel), LineTotals(df))

C5_Witness ==
    /\ pc = "done"
    /\ files = <<DocNoCompany, DocTable>>
    /\ summary.option_totals[1].total = 50
    /\ summary.totals[1].total = 900
    /\ ItemRows[2].postnr = P0201
    /\ ItemRows[2].total = <<None, Some(100)>>
    /\ ChapterRows[2].total = <<0, 100>>

(***************************************************************************)
(* C6.  In every item row where some provider has a total, lowest_total is *)
(* the least of the totals present and winner is the earliest-registered   *)
(* provider whose total is that least one.  The bids A (10 x 100) and      *)
(* B (5 x 200), in either order, give totals 1000 and 1000, the            *)
(* first-registered as winner, std_dev 0 and std_dev_pct 0.                *)
(***************************************************************************)
Holders(r) == {i \in 1..Len(r.total) : r.total[i] # None}

C6_WinnerIsEarliestLowest ==
    pc = "done" =>
        /\ \A r \in Range(ItemRows) :
              Holders(r) # {} =>
                  LET least == CHOOSE i \in Holders(r) :
                                  /\ \A j \in Holders(r) : r.total[i][1] <= r.total[j][1]
                                  /\ \A j \in Holders(r) :
                                        r.total[j][1] = r.total[i][1] => i <= j
                  IN  /\ r.lavest_sum = r.total[least]
                      /\ r.vinner = bids[least].name
        /\ files \in {<<DocAlfa, DocBeta>>, <<DocBeta, DocAlfa>>} =>
              /\ Len(ItemRows) = 1
              /\ ItemRows[1].postnr = P0101
              /\ ItemRows[1].total = <<Some(1000), Some(1000)>>
              /\ ItemRows[1].vinner = Candidate(files[1])
              /\ ItemRows[1].lavest_sum = Some(1000)
              /\ ItemRows[1].std_avvik = Some(<<>>)
              /\ ItemRows[1].std_pct = Some(<<>>)

C6_Witness ==
    /\ pc = "done"
    /\ files = <<DocAlfa, DocBeta>>
    /\ ItemRows[1].vinner = "Alfa"
    /\ ItemRows[1].total = <<Some(1000), Some(1000)>>

(***************************************************************************)
(* C7.  A provider without an aggregated value for an item code is absent  *)
(* from that row, not zero: its unit price and total stay blank and it is  *)
(* not the winner; the mean is the sum of the totals of the providers that *)
(* have the item divided by their number (blank when that is 0), and the   *)
(* square of std_dev is their sample variance; with fewer than 2 of them   *)
(* std_dev is 0, and std_dev_pct is 0 whenever the mean is 0 or blank.     *)
(***************************************************************************)
Bidders(postnr) == {i \in 1..Len(bids) : ItemLines(bids[i].df, postnr) # {}}

BidTotals(postnr) ==
    [i \in 1..Len(bids) |-> SumOver(ItemLines(bids[i].df, postnr), LineTotals(bids[i].df))]

BidSquares(postnr) == [i \in 1..Len(bids) |-> BidTotals(postnr)[i] * BidTotals(postnr)[i]]

RootSquare(x) == IF x = <<>> THEN RInt(0) ELSE RMul(RMul(x[1].c, x[1].c), x[1].rad)

C7_AbsentIsNotZero ==
    pc = "done" =>
        \A r \in Range(ItemRows) :
            LET in == Bidders(r.postnr)
                n == Cardinality(in)
                s == SumOver(in, BidTotals(r.postnr))
                ss == SumOver(in, BidSquares(r.postnr))
            IN  /\ \A i \in (1..Len(bids)) \ in :
                      /\ r.unit[i] = None
                      /\ r.total[i] = None
                      /\ r.vinner # bids[i].name
                /\ \A i \in in : r.total[i] # None
                /\ r.lavest_sum[1] \in {BidTotals(r.postnr)[i] : i \in in}
                /\ r.snitt = IF s = 0 THEN None ELSE Some(Rat(s, n))
                /\ n < 2 => r.std_avvik = Some(<<>>)
                /\ n >= 2 => RootSquare(r.std_avvik[1]) = Rat(n * ss - s * s, n * (n - 1))
                /\ (s = 0 \/ r.snitt = None) => r.std_pct = Some(<<>>)

C7_Witness ==
    /\ pc = "done"
    /\ files = <<DocNoPrices, DocSuffixed, DocAlfa>>
    /\ ItemRows[2].postnr = P0201
    /\ ItemRows[2].total = <<Some(0), Some(150), None>>
    /\ ItemRows[2].snitt = Some(<<75, 1>>)
    /\ ItemRows[2].std_avvik # Some(<<>>)
    /\ ItemRows[1].total = <<None, None, Some(1000)>>
    /\ ItemRows[1].std_avvik = Some(<<>>)

(***************************************************************************)
(* C10.  The matrix has z-score columns exactly when the batch has 3 or    *)
(* more providers: then one per provider, with a value in every item row,  *)
(* however few providers have a total in the row; with 1 or 2 providers    *)
(* there is none.                                                          *)
(***************************************************************************)
ZColumns == {bids[i].name \o " (z-score)" : i \in 1..Len(bids)}

C10_ZScoresByBatchSize ==
    pc = "done" =>
        IF Len(bids) >= 3
        THEN /\ ZColumns \subseteq Range(matrix.columns)
             /\ Cardinality(ZColumns) = Len(bids)
             /\ Len(matrix.columns) = Len(MatrixColumns(<<>>, HasMeta(bids))) + 3 * Len(bids)
             /\ \A r \in Range(ItemRows) :
                   /\ Len(r.z) = Len(bids)
                   /\ \A i \in 1..Len(bids) : r.z[i] # None
        ELSE /\ ZColumns \cap Range(matrix.columns) = {}
             /\ Len(matrix.columns) = Len(MatrixColumns(<<>>, HasMeta(bids))) + 2 * Len(bids)
             /\ \A r \in Range(matrix.rows) : r.z = <<>>

C10_Witness ==
    /\ pc = "done"
    /\ files = <<DocAlfa, DocBeta, DocSuffixed>>
    /\ "Alfa (2) (z-score)" \in Range(matrix.columns)
    /\ ItemRows[2].total = <<None, None, Some(150)>>
    /\ ItemRows[2].z = <<Some(<<>>), Some(<<>>), Some(<<>>)>>
    /\ ItemRows[1].z # ItemRows[2].z \/ ItemRows[1].std_avvik = Some(<<>>)

(***************************************************************************)
(* C8.  For every item code of the frame, with G its rows, Q the rows of G *)
(* that have a quantity and a unit price, P those that have a unit price   *)
(* and T those that have a total: the aggregated unit price u satisfies    *)
(* u * sum(qty over Q) = sum(price * qty over Q) when Q is not empty and   *)
(* the summed quantity is > 0, u * |Q| = sum(price over Q) when Q is not   *)
(* empty and the summed quantity is not > 0, u * |P| = sum(price over P)   *)
(* when Q is empty and P is not, and is undefined otherwise; the           *)
(* aggregated total is the sum of the totals over T, undefined when T is   *)
(* empty; the code has exactly one aggregated row, or none when both are   *)
(* undefined; and no other row is produced.                                *)
(***************************************************************************)
RECURSIVE RSumOver(_, _)
RSumOver(S, f) ==
    IF S = {} THEN RInt(0)
    ELSE LET x == CHOOSE x \in S : TRUE IN RAdd(f[x], RSumOver(S \ {x}, f))

FrameGroup(postnr) == {i \in 1..Len(agg_df) : agg_df[i].postnr = postnr}

C8_AggregatedPriceAndTotal ==
    pc \in {"aggregated", "aggregated twice"} =>
        /\ \A k \in 1..Len(agg_out) : FrameGroup(agg_out[k].postnr) # {}
        /\ \A c \in {agg_df[i].postnr : i \in 1..Len(agg_df)} :
              LET G == FrameGroup(c)
                  Q == {i \in G : agg_df[i].qty # None /\ agg_df[i].unit_price # None}
                  P == {i \in G : agg_df[i].unit_price # None}
                  T == {i \in G : agg_df[i].sum_amount # None}
                  qty_sum == SumOver(Q, [i \in Q |-> agg_df[i].qty[1]])
                  price == [i \in P |-> agg_df[i].unit_price[1]]
                  worth == [i \in Q |-> RMul(agg_df[i].unit_price[1], RInt(agg_df[i].qty[1]))]
                  hits == {k \in 1..Len(agg_out) : agg_out[k].postnr = c}
              IN  IF P = {} /\ T = {} THEN hits = {}
                  ELSE /\ Cardinality(hits) = 1
                       /\ \A k \in hits :
                             /\ agg_out[k].total =
                                   IF T = {} THEN None
                                   ELSE Some(SumOver(T, [i \in T |-> agg_df[i].sum_amount[1]]))
                             /\ IF P = {} THEN agg_out[k].unit = None
                                ELSE /\ agg_out[k].unit # None
                                     /\ IF Q # {} /\ qty_sum > 0
                                        THEN RMul(agg_out[k].unit[1], RInt(qty_sum))
                                                = RSumOver(Q, worth)
                                        ELSE IF Q # {}
                                        THEN RMul(agg_out[k].unit[1], RInt(Cardinality(Q)))
                                                = RSumOver(Q, price)
                                        ELSE RMul(agg_out[k].unit[1], RInt(Cardinality(P)))
                                                = RSumOver(P, price)

C8_Witness ==
    /\ pc = "aggregated"
    /\ agg_df = <<[postnr |-> P0101, qty |-> Some(1), unit_price |-> Some(RInt(10)),
                   sum_amount |-> Some(7)],
                  [postnr |-> P0101, qty |-> Some(3), unit_price |-> Some(RInt(40)),
                   sum_amount |-> None]>>
    /\ agg_out = <<[postnr |-> P0101, unit |-> Some(<<65, 2>>), total |-> Some(7)]>>

(***************************************************************************)
(* C9.  As claimed: for every frame with exactly one row per item code,    *)
(* the aggregator returns the same item codes, each with its unit price    *)
(* and its total unchanged; and aggregating its result again gives the     *)
(* same result.                                                            *)
(***************************************************************************)
OneRowPerCode(df) == \A i, j \in 1..Len(df) : i # j => df[i].postnr # df[j].postnr

Unchanged(df, out) ==
    /\ {out[k].postnr : k \in 1..Len(out)} = {df[i].postnr : i \in 1..Len(df)}
    /\ \A i \in 1..Len(df) : \A k \in 1..Len(out) :
          out[k].postnr = df[i].postnr =>
              out[k].unit = df[i].unit_price /\ out[k].total = df[i].sum_amount

EveryRowPriced(df) ==
    \A i \in 1..Len(df) : df[i].unit_price # None \/ df[i].sum_amount # None

RootSign(x) == IF x = <<>> THEN 0 ELSE IF x[1].c[1] > 0 THEN 1 ELSE -1

Sign(n) == IF n = 0 THEN 0 ELSE IF n > 0 THEN 1 ELSE -1

C11_ZScoreIsSampleStandardised ==
    (pc = "done" /\ Len(bids) >= 3) =>
        \A r \in Range(ItemRows) : \A i \in 1..Len(bids) :
            LET in == Bidders(r.postnr)
                n == Cardinality(in)
                s == SumOver(in, BidTotals(r.postnr))
                ss == SumOver(in, BidSquares(r.postnr))
                t == BidTotals(r.postnr)[i]
            IN  /\ Len(r.z[i]) = 1
                /\ Len(r.z[i][1]) <= 1
                /\ IF i \notin in \/ n < 2 \/ n * ss - s * s = 0
                   THEN r.z[i] = Some(<<>>)
                   ELSE /\ RootSign(r.z[i][1]) = Sign(n * t - s)
                        /\ RMul(RootSquare(r.z[i][1]), Rat(n * ss - s * s, n * (n - 1)))
                              = Rat((n * t - s) * (n * t - s), n * n)
                /\ (\A j \in 1..3 : r.total[j] = Some(800 + 100 * j) /\ Len(bids) = 3) =>
                      /\ r.snitt = Some(RInt(1000))
                      /\ r.std_avvik = Some(<<[c |-> RInt(100), rad |-> RInt(1)]>>)
                      /\ r.z = <<Some(<<[c |-> RInt(-1), rad |-> RInt(1)]>>),
                                 Some(<<>>),
                                 Some(<<[c |-> RInt(1), rad |-> RInt(1)]>>)>>

C11_Witness ==
    /\ pc = "done"
    /\ files = <<DocNoCompany, DocAlfa, DocTable>>
    /\ ItemRows[1].postnr = P0101
    /\ ItemRows[1].total = <<Some(900), Some(1000), Some(1100)>>
    /\ ItemRows[1].z[1] = Some(<<[c |-> RInt(-1), rad |-> RInt(1)]>>)
    /\ ItemRows[1].z[3] = Some(<<[c |-> RInt(1), rad |-> RInt(1)]>>)
    /\ ItemRows[2].total = <<None, None, Some(100)>>
    /\ ItemRows[2].z[3] = Some(<<>>)

(***************************************************************************)
(* C12.  For every chapter row, with the chapter total of every registered *)
(* provider being the sum of its non-option lines of that chapter (0 when  *)
(* it has none): if these totals are all equal then lowest_provider is     *)
(* "N/A", lowest_total 0 and spread_pct 0; otherwise lowest_provider is a  *)
(* provider with the least total, lowest_total is that total and           *)
(* spread_pct is (max - min)/min * 100, or 0 when min is 0.                *)
(***************************************************************************)
ChapterTotals(kapittel) ==
    [i \in 1..Len(bids) |->
        SumOver(ChapterLines(bids[i].df, kapittel), LineTotals(bids[i].df))]

ChapterVerdict(r, sums) ==
    LET lo == MinOf(sums)
        hi == MaxOf(sums)
    IN  IF \A i \in 1..Len(sums) : sums[i] = lo
        THEN /\ r.laveste_tilbyder = "N/A"
             /\ r.laveste_sum = Some(0)
             /\ r.spann_pct = Some(RInt(0))
        ELSE /\ \E i \in 1..Len(sums) : sums[i] = lo /\ r.laveste_tilbyder = bids[i].name
             /\ r.laveste_sum = Some(lo)
             /\ r.spann_pct = Some(IF lo = 0 THEN RInt(0) ELSE Rat((hi - lo) * 100, lo))

C12_ChapterLowestAndSpread ==
    pc = "done" =>
        \A r \in Range(ChapterRows) : ChapterVerdict(r, ChapterTotals(r.kapittel))

(***************************************************************************)
(* C12 holds in the batches where every registered provider has at least   *)
(* one non-option line.                                                    *)
(***************************************************************************)
EveryProviderHasBaseLines == \A i \in 1..Len(bids) : BaseLines(bids[i].df) # {}

C12_AmongProvidersWithBaseLines ==
    (pc = "done" /\ EveryProviderHasBaseLines) =>
        \A r \in Range(ChapterRows) : ChapterVerdict(r, ChapterTotals(r.kapittel))

(***************************************************************************)
(* C13.  The chapter table has, after its five leading columns, exactly    *)
(* one total column for every registered provider, in registration order;  *)
(* and in every chapter row a provider's total is the sum of its           *)
(* non-option lines of that chapter, 0 when it has none.                   *)
(***************************************************************************)
C13_OneChapterColumnPerProvider ==
    pc = "done" =>
        /\ chapter.columns = <<"kapittel", "kapittel_navn", "laveste_tilbyder",
                               "laveste_sum", "spann_pct">> \o Names(bids)
        /\ \A r \in Range(ChapterRows) : r.total = ChapterTotals(r.kapittel)

(***************************************************************************)
(* C13 holds in the batches where every registered provider has at least   *)
(* one non-option line.                                                    *)
(***************************************************************************)
C13_AmongProvidersWithBaseLines ==
    (pc = "done" /\ EveryProviderHasBaseLines) =>
        /\ chapter.columns = <<"kapittel", "kapittel_navn", "laveste_tilbyder",
                               "laveste_sum", "spann_pct">> \o Names(bids)
        /\ \A r \in Range(ChapterRows) : r.total = ChapterTotals(r.kapittel)

(***************************************************************************)
(* C14.  With the base total of every registered provider being the sum of *)
(* its non-option line totals: when all base totals are equal (so also     *)
(* when there is one provider) the summary's winner has the empty name and *)
(* total 0; otherwise the winner is the earliest-registered provider whose *)
(* base total is the least, with that total.                               *)
(***************************************************************************)
BaseTotals ==
    [i \in 1..Len(bids) |-> SumOver(BaseLines(bids[i].df), LineTotals(bids[i].df))]

C14_OverallWinner ==
    pc = "done" =>
        LET lo == MinOf(BaseTotals)
            least == {i \in 1..Len(bids) : BaseTotals[i] = lo}
        IN  IF least = 1..Len(bids)
            THEN summary.winner = [name |-> "", total |-> 0]
            ELSE /\ summary.winner.total = lo
                 /\ \E i \in least :
                       /\ summary.winner.name = bids[i].name
                       /\ \A j \in least : i <= j

C14_Witness ==
    /\ pc = "done"
    /\ files = <<DocAlfa, DocBeta, DocTable>>
    /\ BaseTotals = <<1000, 1000, 1200>>
    /\ summary.winner = [name |-> "Alfa", total |-> 1000]

(***************************************************************************)
(* C15.  The item rows of the matrix are in strictly ascending order of    *)
(* item code, compared character by character, and the set of their codes  *)
(* is the set of the item codes of the non-option lines of all providers.  *)
(***************************************************************************)
C15_RowsAreTheSortedUnion ==
    pc = "done" =>
        /\ \A k \in 1..(Len(ItemRows) - 1) :
              StrLess(ItemRows[k].postnr, ItemRows[k + 1].postnr)
        /\ {ItemRows[k].postnr : k \in 1..Len(ItemRows)}
              = UNION {{bids[i].df[k].postnr : k \in BaseLines(bids[i].df)} :
                         i \in 1..Len(bids)}

C15_Witness ==
    /\ pc = "done"
    /\ files = <<DocNoPrices, DocAlfa>>
    /\ [k \in 1..Len(ItemRows) |-> ItemRows[k].postnr] = <<P0101, P0201, P1>>
    /\ ItemRows[1].total = <<None, Some(1000)>>

(***************************************************************************)
(* C16.  A matrix that has rows ends with a row whose item code is "SUM",  *)
(* and no row before it has that code.  On that row every provider's total *)
(* is the sum of the provider's totals present in the item rows,           *)
(* lowest_total is the sum of the item rows' lowest_total, std_dev is the  *)
(* sum of the item rows' std_dev (compared radicand by radicand), and the  *)
(* unit prices, the winner, the mean, std_dev_pct, the z-scores and the    *)
(* shared metadata are blank.                                              *)
(***************************************************************************)
Coefficient(x, rad) ==
    LET hits == {i \in 1..Len(x) : x[i].rad = rad}
    IN  IF hits = {} THEN RInt(0) ELSE x[CHOOSE i \in hits : TRUE].c

Radicands(x) == {x[i].rad : i \in 1..Len(x)}

MetaFields == {"kapittel", "kapittel_navn", "ns_code", "specification", "enhet"}

LinesOf(postnr) ==
    UNION {{<<i, k>> : k \in {k \in BaseLines(bids[i].df) :
                                    Plain(bids[i].df[k].postnr) = postnr}} :
              i \in 1..Len(bids)}

Earliest(P) == CHOOSE p \in P : \A q \in P : p[1] < q[1] \/ (p[1] = q[1] /\ p[2] <= q[2])

FirstNonEmpty(postnr, field, Read(_)) ==
    LET P == {p \in LinesOf(postnr) : Read(bids[p[1]].df[p[2]][field]) # <<>>}
    IN  IF P = {} THEN <<>>
        ELSE Read(bids[Earliest(P)[1]].df[Earliest(P)[2]][field])

FirstQuantity(postnr) ==
    LET P == {p \in LinesOf(postnr) : bids[p[1]].df[p[2]].qty # Some(0)}
    IN  IF P = {} THEN Some(0) ELSE bids[Earliest(P)[1]].df[Earliest(P)[2]].qty

C19_FirstNonEmptyMetadata ==
    pc = "done" =>
        \A r \in Range(ItemRows) :
            /\ \A f \in MetaFields : r.meta[f] = FirstNonEmpty(r.postnr, f, Plain)
            /\ r.meta.qty = FirstQuantity(r.postnr)

(***************************************************************************)
(* C19 holds as it stands when a blank cell of a table is taken for the    *)
(* text "nan", which is what the rows hold for it.                         *)
(***************************************************************************)
C19_WithBlankCellsAsRead ==
    pc = "done" =>
        \A r \in Range(ItemRows) :
            /\ \A f \in MetaFields : r.meta[f] = FirstNonEmpty(r.postnr, f, Text)
            /\ r.meta.qty = FirstQuantity(r.postnr)

(***************************************************************************)
(* C17: the Numeric Parser returns a finite float for every input: 0.0 for *)
(* None, for an empty or whitespace-only text and for every text it cannot *)
(* read, the number itself for a number; so the quantity, the unit price   *)
(* and the total of every XML line are finite.                             *)
(***************************************************************************)
IsBlankCell(cell) == cell.kind = "none" \/ (cell.kind = "text" /\ Strip(cell.text) = <<>>)

C17_NumbersAreFinite ==
    /\ num_float # None =>
           /\ IsFinite(num_float[1])
           /\ IsBlankCell(num_cell) => num_float[1] = Finite(RInt(0))
           /\ (num_cell.kind = "text" /\ "x" \in Range(num_cell.text)) =>
                  num_float[1] = Finite(RInt(0))
           /\ num_cell.kind = "number" => num_float[1] = num_cell.number
    /\ num_line # None =>
           \A f \in NumFields : IsFinite(num_line[1][f])

\* C17, as far as it holds: every cell that is a finite number or a text
\* free of letters gives a finite float, and so do the numbers of its line.
C17_FiniteWithoutLetters ==
    (\/ num_cell.kind = "none"
     \/ num_cell.kind = "number" /\ IsFinite(num_cell.number)
     \/ num_cell.kind = "text" /\ \A i \in 1..Len(num_cell.text) : ~IsAlpha(num_cell.text[i]))
        => /\ num_float # None => IsFinite(num_float[1])
           /\ num_line # None => \A f \in NumFields : IsFinite(num_line[1][f])

(***************************************************************************)
(* C18: the Column Normalizer turns every quantity, unit-price and total   *)
(* cell into exactly the number the Numeric Parser returns for the cell,   *)
(* as the XML parser does for the quantity and the unit price of a line.   *)
(***************************************************************************)
C18_NormalizerIsTheNumericParser ==
    /\ num_row # None => num_row[1][num_field] = ToFloat(num_cell)
    /\ (num_line # None /\ num_field # "sum_amount") =>
           num_line[1][num_field] = ToFloat(num_cell)

\* C18, as far as it holds: a text cell of digits with at most one decimal
\* point, blanks allowed at its two ends only, is read alike by all.
C18_AgreeOnPlainDecimals ==
    (/\ num_row # None
     /\ num_cell.kind = "text"
     /\ PyFloat(AsciiStrip(num_cell.text)).ok
     /\ IsFinite(PyFloat(AsciiStrip(num_cell.text)).float))
        => num_row[1][num_field] = ToFloat(num_cell)

(***************************************************************************)
(* C20: the chapter-to-title map is write-once.  With the bids scanned in  *)
(* the order of their registration and the rows in the order of their      *)
(* document, the first row that offers an acceptable title for a chapter   *)
(* code fixes it, and no later row of the same bid or of a later bid       *)
(* changes or removes it.                                                  *)
(***************************************************************************)
Scanned == SubSeq(AllRows(bids), 1, Len(AllRows(bids)) - Len(scan))

Offer(row) == TitleStep(<<>>, row)

FirstOffer(code) ==
    LET offers == SelectSeq(Scanned, LAMBDA r : Offer(r) # <<>> /\ Offer(r)[1].code = code)
    IN  IF offers = <<>> THEN <<>> ELSE Offer(offers[1])[1].title

TitleKept == \A i \in 1..Len(titles) : i <= Len(titles') /\ titles'[i] = titles[i]

C20_TitlesAreWriteOnce ==
    /\ [](\A code \in {Text(r.kapittel) : r \in Range(Scanned)} :
              TitleOf(titles, code) = FirstOffer(code))
    /\ [][TitleKept]_vars

C20_Witness ==
    /\ pc = "titled"
    /\ \E i, j \in 1..Len(Scanned) :
           /\ i < j
           /\ Offer(Scanned[i]) # <<>>
           /\ Offer(Scanned[j]) # <<>>
           /\ Offer(Scanned[i])[1].code = Offer(Scanned[j])[1].code
           /\ Offer(Scanned[i])[1].title # Offer(Scanned[j])[1].title
           /\ \A k \in 1..(i - 1) : Text(Scanned[k].kapittel) # Offer(Scanned[i])[1].code
           /\ TitleOf(titles, Offer(Scanned[i])[1].code) = Offer(Scanned[i])[1].title

(***************************************************************************)
(* C21: for every chapter code, if any line of the chapter in any bid      *)
(* carries an explicit chapter title, the title resolved for the chapter   *)
(* is a normalized explicit chapter title, in preference to a title from a *)
(* classification heading, a specification line or a description.         *)
(***************************************************************************)
Explicit(row) == Normalize(Str(row.kapittel_navn))

ExplicitTitles(code) ==
    {Explicit(r) : r \in {r \in Range(AllRows(bids)) :
                             Text(r.kapittel) = code /\ Explicit(r) # <<>>}}

C21_ExplicitTitleOnAnyLineWins ==
    pc = "titled" =>
        \A r \in Range(AllRows(bids)) :
            ExplicitTitles(Text(r.kapittel)) # {} =>
                TitleOf(titles, Text(r.kapittel)) \in ExplicitTitles(Text(r.kapittel))

\* C21, amended: the preference is that of the line which fixes the title.
\* If the first line of a chapter that offers any title carries an explicit
\* chapter title, the resolved title is that title normalized, whatever
\* heading, specification or description the line has; an explicit title on
\* a later line does not replace a title already fixed.
FirstOfferRow(code) ==
    LET offers == SelectSeq(Scanned, LAMBDA r : Offer(r) # <<>> /\ Offer(r)[1].code = code)
    IN  offers[1]

C21_ExplicitTitleOfFixingLineWins ==
    /\ \A r \in Range(Scanned) :
           (Text(r.kapittel) # <<>> /\ Explicit(r) # <<>>) => HasTitle(titles, Text(r.kapittel))
    /\ \A e \in Range(titles) :
           Explicit(FirstOfferRow(e.code)) # <<>> => e.title = Explicit(FirstOfferRow(e.code))

C21_Witness ==
    /\ pc = "titled"
    /\ \E r \in Range(Scanned) :
           /\ FirstOffer(Text(r.kapittel)) # <<>>
           /\ FirstOfferRow(Text(r.kapittel)) = r
           /\ Explicit(r) # <<>>
           /\ AcceptedCandidates(r) # <<>>
           /\ Normalize(AcceptedCandidates(r)[1]) # Explicit(r)
           /\ TitleOf(titles, Text(r.kapittel)) = Explicit(r)

(***************************************************************************)
(* C22: every title the Chapter Title Resolver accepts is at most 120      *)
(* characters long: a longer title, explicit or from a fallback candidate, *)
(* is truncated and ends with the ellipsis marker.                         *)
(***************************************************************************)
EndsWithEllipsis(text) ==
    Len(text) >= 3 /\ SubSeq(text, Len(text) - 2, Len(text)) = <<".", ".", ".">>

C22_TitlesAtMost120 ==
    \A e \in Range(titles) :
        /\ Len(e.title) <= 120
        /\ \A r \in Range(Scanned) :
               (/\ FirstOffer(e.code) # <<>>
                /\ FirstOfferRow(e.code) = r
                /\ \/ Len(Explicit(r)) > 120
                   \/ Explicit(r) = <<>> /\ Len(Normalize(AcceptedCandidates(r)[1])) > 120)
                   => EndsWithEllipsis(e.title)

\* C22, as far as it holds: a title taken from a fallback candidate is at
\* most 120 characters long and, when its candidate was longer, is the
\* candidate's first 117 characters followed by the ellipsis marker.
C22_FallbackTitlesAtMost120 ==
    \A e \in Range(titles) :
        \A r \in Range(Scanned) :
            (FirstOffer(e.code) # <<>> /\ FirstOfferRow(e.code) = r /\ Explicit(r) = <<>>)
                => /\ Len(e.title) <= 120
                   /\ Len(Normalize(AcceptedCandidates(r)[1])) > 120 =>
                          /\ EndsWithEllipsis(e.title)
                          /\ SubSeq(e.title, 1, 117)
                                 = SubSeq(Normalize(AcceptedCandidates(r)[1]), 1, 117)

(***************************************************************************)
(* C23: after any sequence of fragment additions for one line, the list of *)
(* specification fragments holds no empty fragment, no untrimmed fragment  *)
(* and no two fragments equal ignoring case; the fragments stand in the    *)
(* order of their first occurrence, and a fragment already present is      *)
(* never moved or replaced by a later duplicate.                           *)
(***************************************************************************)
IsFirstOccurrence(k) ==
    /\ Strip(added[k]) # <<>>
    /\ \A j \in 1..(k - 1) : LowerText(Strip(added[j])) # LowerText(Strip(added[k]))

FirstOccurrences ==
    LET numbered == [k \in 1..Len(added) |-> [at |-> k, text |-> Strip(added[k])]]
        firsts == SelectSeq(numbered, LAMBDA e : IsFirstOccurrence(e.at))
    IN  [i \in 1..Len(firsts) |-> firsts[i].text]

FragmentsKept ==
    /\ Len(spec_parts) <= Len(spec_parts')
    /\ \A i \in 1..Len(spec_parts) : spec_parts'[i] = spec_parts[i]

C23_FragmentsTrimmedOnceInOrder ==
    /\ [](/\ \A i \in 1..Len(spec_parts) :
                /\ spec_parts[i] # <<>>
                /\ Strip(spec_parts[i]) = spec_parts[i]
                /\ \A j \in 1..Len(spec_parts) :
                       i # j => LowerText(spec_parts[i]) # LowerText(spec_parts[j])
          /\ spec_parts = FirstOccurrences)
    /\ [][FragmentsKept]_vars

C23_Witness ==
    /\ Len(added) = MaxAdds
    /\ \E j, k \in 1..Len(added) :
           /\ j < k
           /\ added[j] # Strip(added[j])
           /\ Strip(added[j]) # Strip(added[k])
           /\ LowerText(Strip(added[j])) = LowerText(Strip(added[k]))
           /\ spec_parts = <<Strip(added[j])>>
    /\ \E k \in 1..Len(added) : added[k] # <<>> /\ Strip(added[k]) = <<>>

(***************************************************************************)
(* C24: the three outputs agree on each provider's base total.  For every  *)
(* provider that has a total column in both tables, the provider's total   *)
(* in the SUM row of the matrix, its total in the SUM row of the chapter   *)
(* table and its base total in the summary record are equal, all being the *)
(* sum of the provider's non-option line totals.                           *)
(***************************************************************************)
ChapterColumnOf(i) ==
    {j \in 1..(Len(chapter.columns) - 5) : chapter.columns[5 + j] = bids[i].name}

C24_ThreeOutputsAgree ==
    (pc = "done" /\ matrix.rows # <<>> /\ chapter.rows # <<>>) =>
        \A i \in 1..Len(bids) :
            \A j \in ChapterColumnOf(i) :
                /\ matrix.rows[Len(matrix.rows)].total[i] = Some(BaseTotals[i])
                /\ chapter.rows[Len(chapter.rows)].total[j] = BaseTotals[i]
                /\ summary.totals[i] = [name |-> bids[i].name, total |-> BaseTotals[i]]

C24_Witness ==
    /\ pc = "done"
    /\ Len(bids) >= 2
    /\ Len(ChapterRows) >= 2
    /\ \A i \in 1..Len(bids) : ChapterColumnOf(i) # {}
    /\ \E i \in 1..Len(bids) :
           /\ OptionLines(bids[i].df) # {}
           /\ \E k \in OptionLines(bids[i].df) : LineTotals(bids[i].df)[k] > 0
           /\ BaseTotals[i] > 0
           /\ \A j \in ChapterColumnOf(i) :
                  chapter.rows[Len(chapter.rows)].total[j] = BaseTotals[i]
    /\ \E i, j \in 1..Len(bids) : BaseTotals[i] # BaseTotals[j]

(***************************************************************************)
(* C25: the command-line pipeline and the API pipeline report the same     *)
(* overall winner for the same ordered set of parsed bids, and both report *)
(* no winner when all providers' base totals are equal, which includes the *)
(* case of a single provider.                                              *)
(***************************************************************************)
AllTotalsEqual == \A i, j \in 1..Len(bids) : BaseTotals[i] = BaseTotals[j]

C25_SameWinnerInBothPipelines ==
    (pc = "done" /\ cli_winner # None) =>
        /\ cli_winner[1].name = summary.winner.name
        /\ AllTotalsEqual => cli_winner[1].name = ""

\* C25, as far as it holds: when the base totals are not all equal, both
\* pipelines report the same provider with the same total.
C25_SameWinnerUnlessAllEqual ==
    (pc = "done" /\ cli_winner # None /\ ~AllTotalsEqual) =>
        cli_winner[1] = summary.winner

=============================================================================
